---- MODULE Spec2Model ----
(***************************************************************************)
(* Gem Garden: match-3 board engine with the level system.                 *)
(*                                                                         *)
(* The model follows game.js (level-system version) and levels.js.  The    *)
(* board is grid[row][col]; a cell holds a gem kind 0..NUM_GEM_TYPES-1 or  *)
(* -1 (removed).  trySwap is an async function: it is modelled as a task   *)
(* whose position (pc) is the await it is suspended at, and one action     *)
(* runs everything from one timer wake-up to the next suspension.          *)
(*                                                                         *)
(* Math.random() is modelled as a value k / RandomSteps, k an integer in   *)
(* 0..RandomSteps-1.  Every handler reads its draws from a stream made    *)
(* from a word of such values (SeedLen of them in the game), chosen        *)
(* freely: the stream runs through the word again and again, each pass     *)
(* one step further on.                                                    *)
(***************************************************************************)
EXTENDS Integers, Sequences, FiniteSets, TLC

\* ---------------------------------------------------------------------
\* Configuration (CONFIG object).  ROWS, COLS and NUM_GEM_TYPES are scaled
\* down from 8, 8 and 6 to keep the state space finite and small.
\* ---------------------------------------------------------------------
ROWS == 3
COLS == 3
NUM_GEM_TYPES == 3
POINTS_PER_GEM == 10
MaxAttempts == 100

\* Bounds of the model
\*   RandomSteps      values a draw of Math.random() can take
\*   SeedLen          length of the word a random stream is made from
\*   MaxShuffleTries  shuffleBoard calls followed within one reshuffle
\*   MaxTasks         trySwap calls in flight at once
\*   MaxOps           calls of trySwap, loadLevel and showLevelSelect in a run
\*   MaxIterations    cascade iterations in a run
\*   MaxClickRow/Col  gems that are clicked: rows 0..MaxClickRow, columns 0..MaxClickCol
RandomSteps == 3
SeedLen == 2
MaxShuffleTries == 3
MaxTasks == 2
MaxOps == 2
MaxIterations == 2
MaxClickRow == 1
MaxClickCol == 1

Rows == 0 .. (ROWS - 1)
Cols == 0 .. (COLS - 1)
Cells == Rows \X Cols
Kinds == 0 .. (NUM_GEM_TYPES - 1)
EmptyMark == 0 - 1
Tokens == Kinds \cup {EmptyMark}

\* ---------------------------------------------------------------------
\* Random streams
\* ---------------------------------------------------------------------
Words == [0 .. (SeedLen - 1) -> 0 .. (RandomSteps - 1)]

\* the value (numerator) of the draw at position p of stream w: the word,
\* advanced by one step on every pass through it
draw(w, p) ==
    LET n == Cardinality(DOMAIN w)
    IN  (w[p % n] + (p \div n)) % RandomSteps

\* Math.floor(Math.random() * n) for the draw at position p of stream w
randomInt(w, p, n) == (draw(w, p) * n) \div RandomSteps

\* ---------------------------------------------------------------------
\* Grid primitives
\* ---------------------------------------------------------------------
swap(g, row1, col1, row2, col2) ==
    LET temp == g[row1][col1]
        g1 == [g EXCEPT ![row1][col1] = g[row2][col2]]
    IN  [g1 EXCEPT ![row2][col2] = temp]

\* variant of isAdjacent: diagonal neighbours count as adjacent
isAdjacentDiagonal(pos1, pos2) ==
    LET rowDiff == IF pos1[1] >= pos2[1] THEN pos1[1] - pos2[1] ELSE pos2[1] - pos1[1]
        colDiff == IF pos1[2] >= pos2[2] THEN pos1[2] - pos2[2] ELSE pos2[2] - pos1[2]
    IN  rowDiff <= 1 /\ colDiff <= 1 /\ rowDiff + colDiff >= 1

isAdjacent(pos1, pos2) ==
    LET rowDiff == IF pos1[1] >= pos2[1] THEN pos1[1] - pos2[1] ELSE pos2[1] - pos1[1]
        colDiff == IF pos1[2] >= pos2[2] THEN pos1[2] - pos2[2] ELSE pos2[2] - pos1[2]
    IN  (rowDiff = 1 /\ colDiff = 0) \/ (rowDiff = 0 /\ colDiff = 1)

\* ---------------------------------------------------------------------
\* Match detection
\* ---------------------------------------------------------------------
RECURSIVE extendRight(_, _, _, _)
extendRight(g, row, matchEnd, gemType) ==
    IF matchEnd + 1 < COLS /\ g[row][matchEnd + 1] = gemType
    THEN extendRight(g, row, matchEnd + 1, gemType)
    ELSE matchEnd

RECURSIVE extendDown(_, _, _, _)
extendDown(g, col, matchEnd, gemType) ==
    IF matchEnd + 1 < ROWS /\ g[matchEnd + 1][col] = gemType
    THEN extendDown(g, col, matchEnd + 1, gemType)
    ELSE matchEnd

\* the inner loop of the horizontal pass, from column col of one row
RECURSIVE scanRow(_, _, _)
scanRow(g, row, col) ==
    IF col >= COLS - 2 THEN {}
    ELSE LET gemType == g[row][col] IN
         IF g[row][col + 1] = gemType /\ g[row][col + 2] = gemType
         THEN LET matchEnd == extendRight(g, row, col + 2, gemType)
              IN  {<<row, c>> : c \in col .. matchEnd} \cup scanRow(g, row, matchEnd + 1)
         ELSE scanRow(g, row, col + 1)

\* the inner loop of the vertical pass, from row row of one column
RECURSIVE scanCol(_, _, _)
scanCol(g, col, row) ==
    IF row >= ROWS - 2 THEN {}
    ELSE LET gemType == g[row][col] IN
         IF g[row + 1][col] = gemType /\ g[row + 2][col] = gemType
         THEN LET matchEnd == extendDown(g, col, row + 2, gemType)
              IN  {<<r, col>> : r \in row .. matchEnd} \cup scanCol(g, col, matchEnd + 1)
         ELSE scanCol(g, col, row + 1)

\* The Set of "row,col" keys; only its members and its size are used.
findAllMatches(g) ==
    UNION {scanRow(g, row, 0) : row \in Rows} \cup UNION {scanCol(g, col, 0) : col \in Cols}

\* ---------------------------------------------------------------------
\* Valid moves.  The scan swaps in place and swaps back, so the result
\* carries the grid it leaves behind.
\* ---------------------------------------------------------------------
RECURSIVE hasValidMovesFrom(_, _)
hasValidMovesFrom(g, k) ==
    IF k >= ROWS * COLS THEN [result |-> FALSE, grid |-> g]
    ELSE LET row == k \div COLS
             col == k % COLS
             gR1 == IF col < COLS - 1 THEN swap(g, row, col, row, col + 1) ELSE g
             hitR == col < COLS - 1 /\ findAllMatches(gR1) # {}
             gR2 == IF col < COLS - 1 THEN swap(gR1, row, col, row, col + 1) ELSE g
         IN  IF hitR THEN [result |-> TRUE, grid |-> gR2]
             ELSE LET gD1 == IF row < ROWS - 1 THEN swap(gR2, row, col, row + 1, col) ELSE gR2
                      hitD == row < ROWS - 1 /\ findAllMatches(gD1) # {}
                      gD2 == IF row < ROWS - 1 THEN swap(gD1, row, col, row + 1, col) ELSE gR2
                  IN  IF hitD THEN [result |-> TRUE, grid |-> gD2]
                      ELSE hasValidMovesFrom(gD2, k + 1)

\* variant of hasValidMoves: only the right neighbour of each cell is tried
hasValidMovesRightOnly(g) ==
    [result |-> \E row \in Rows, col \in 0 .. COLS - 2 :
                   findAllMatches(swap(g, row, col, row, col + 1)) # {},
     grid |-> g]

\* variant of hasValidMoves: the swap that gives the first positive stays
hasValidMovesNoRevert(g) ==
    LET right(k) == k % COLS < COLS - 1
                    /\ findAllMatches(swap(g, k \div COLS, k % COLS, k \div COLS, (k % COLS) + 1)) # {}
        down(k) == k \div COLS < ROWS - 1
                   /\ findAllMatches(swap(g, k \div COLS, k % COLS, k \div COLS + 1, k % COLS)) # {}
        hits == {k \in 0 .. ROWS * COLS - 1 : right(k) \/ down(k)}
    IN  IF hits = {} THEN [result |-> FALSE, grid |-> g]
        ELSE LET k == CHOOSE h \in hits : \A o \in hits : h <= o
             IN  [result |-> TRUE,
                  grid |-> IF right(k)
                           THEN swap(g, k \div COLS, k % COLS, k \div COLS, (k % COLS) + 1)
                           ELSE swap(g, k \div COLS, k % COLS, k \div COLS + 1, k % COLS)]

hasValidMoves(g) == hasValidMovesFrom(g, 0)

\* findValidMove(): the same scan, returning the pair found (null: NoMove)
NoMove == <<>>
RECURSIVE findValidMoveFrom(_, _)
findValidMoveFrom(g, k) ==
    IF k >= ROWS * COLS THEN [move |-> NoMove, grid |-> g]
    ELSE LET row == k \div COLS
             col == k % COLS
             gR1 == IF col < COLS - 1 THEN swap(g, row, col, row, col + 1) ELSE g
             hitR == col < COLS - 1 /\ findAllMatches(gR1) # {}
             gR2 == IF col < COLS - 1 THEN swap(gR1, row, col, row, col + 1) ELSE g
         IN  IF hitR THEN [move |-> <<row, col, row, col + 1>>, grid |-> gR2]
             ELSE LET gD1 == IF row < ROWS - 1 THEN swap(gR2, row, col, row + 1, col) ELSE gR2
                      hitD == row < ROWS - 1 /\ findAllMatches(gD1) # {}
                      gD2 == IF row < ROWS - 1 THEN swap(gD1, row, col, row + 1, col) ELSE gR2
                  IN  IF hitD THEN [move |-> <<row, col, row + 1, col>>, grid |-> gD2]
                      ELSE findValidMoveFrom(gD2, k + 1)

\* variant of findValidMove: at each cell the bottom neighbour is tried first
RECURSIVE findValidMoveBottomFirstFrom(_, _)
findValidMoveBottomFirstFrom(g, k) ==
    IF k >= ROWS * COLS THEN [move |-> NoMove, grid |-> g]
    ELSE LET row == k \div COLS
             col == k % COLS
         IN  IF row < ROWS - 1 /\ findAllMatches(swap(g, row, col, row + 1, col)) # {}
             THEN [move |-> <<row, col, row + 1, col>>, grid |-> g]
             ELSE IF col < COLS - 1 /\ findAllMatches(swap(g, row, col, row, col + 1)) # {}
             THEN [move |-> <<row, col, row, col + 1>>, grid |-> g]
             ELSE findValidMoveBottomFirstFrom(g, k + 1)

findValidMoveBottomFirst(g) == findValidMoveBottomFirstFrom(g, 0)

findValidMove(g) == findValidMoveFrom(g, 0)

\* ---------------------------------------------------------------------
\* Grid creation
\* ---------------------------------------------------------------------
\* variant of wouldCreateMatch: only the two cells to the left are tested
wouldCreateMatchLeftOnly(g, row, col, gemType) ==
    col >= 2 /\ g[row][col - 1] = gemType /\ g[row][col - 2] = gemType

wouldCreateMatch(g, row, col, gemType) ==
    \/ (col >= 2 /\ g[row][col - 1] = gemType /\ g[row][col - 2] = gemType)
    \/ (row >= 2 /\ g[row - 1][col] = gemType /\ g[row - 2][col] = gemType)

\* the do-while loop: draw number d (d = 1, 2, ...) is taken at stream position
\* p + d - 1; the loop ends at the first draw that passes the test, or at
\* draw MaxAttempts whatever it is.  The result carries the next position.
getRandomGemWithoutMatch(g, row, col, w, p) ==
    LET ends(d) == d >= MaxAttempts
                   \/ ~wouldCreateMatch(g, row, col, randomInt(w, p + d - 1, NUM_GEM_TYPES))
        attempts == CHOOSE d \in 1 .. MaxAttempts :
                        ends(d) /\ \A e \in 1 .. (d - 1) : ~ends(e)
    IN  [gem |-> randomInt(w, p + attempts - 1, NUM_GEM_TYPES), pos |-> p + attempts]

\* cells k, k+1, ... in row-major order; cells not yet set hold EmptyMark
RECURSIVE createGridFrom(_, _, _, _)
createGridFrom(g, k, w, p) ==
    IF k >= ROWS * COLS THEN [grid |-> g, pos |-> p]
    ELSE LET row == k \div COLS
             col == k % COLS
             d == getRandomGemWithoutMatch(g, row, col, w, p)
         IN  createGridFrom([g EXCEPT ![row][col] = d.gem], k + 1, w, d.pos)

createGrid(w, p) ==
    createGridFrom([row \in Rows |-> [col \in Cols |-> EmptyMark]], 0, w, p)

\* ---------------------------------------------------------------------
\* Removal, gravity, refill
\* ---------------------------------------------------------------------
removeMatches(g, matches) ==
    [row \in Rows |-> [col \in Cols |->
        IF <<row, col>> \in matches THEN EmptyMark ELSE g[row][col]]]

\* one column, rows row, row-1, ..., 0
RECURSIVE gravityColumn(_, _, _, _, _)
gravityColumn(g, col, row, emptyRow, gemsFell) ==
    IF row < 0 THEN [grid |-> g, gemsFell |-> gemsFell]
    ELSE IF g[row][col] # EmptyMark
         THEN IF row # emptyRow
              THEN gravityColumn([g EXCEPT ![emptyRow][col] = g[row][col],
                                           ![row][col] = EmptyMark],
                                 col, row - 1, emptyRow - 1, TRUE)
              ELSE gravityColumn(g, col, row - 1, emptyRow - 1, gemsFell)
         ELSE gravityColumn(g, col, row - 1, emptyRow, gemsFell)

RECURSIVE gravityFrom(_, _, _)
gravityFrom(g, col, gemsFell) ==
    IF col >= COLS THEN [grid |-> g, gemsFell |-> gemsFell]
    ELSE LET c == gravityColumn(g, col, ROWS - 1, ROWS - 1, gemsFell)
         IN  gravityFrom(c.grid, col + 1, c.gemsFell)

\* variant of applyGravity: every gem above an Empty cell falls one cell only
applyGravityOneStep(g) ==
    [grid |-> [row \in Rows |-> [col \in Cols |->
                  IF g[row][col] = EmptyMark
                  THEN IF row > 0 THEN g[row - 1][col] ELSE EmptyMark
                  ELSE IF row < ROWS - 1 /\ g[row + 1][col] = EmptyMark
                       THEN EmptyMark ELSE g[row][col]]],
     gemsFell |-> \E row \in 0 .. ROWS - 2, col \in Cols :
                     g[row][col] # EmptyMark /\ g[row + 1][col] = EmptyMark]

applyGravity(g) == gravityFrom(g, 0, FALSE)

\* cells in column-major order; k = col * ROWS + row
RECURSIVE fillFrom(_, _, _, _, _)
fillFrom(g, k, w, p, filled) ==
    IF k >= ROWS * COLS THEN [grid |-> g, filled |-> filled]
    ELSE LET col == k \div ROWS
             row == k % ROWS
         IN  IF g[row][col] = EmptyMark
             THEN fillFrom([g EXCEPT ![row][col] = randomInt(w, p, NUM_GEM_TYPES)],
                           k + 1, w, p + 1, TRUE)
             ELSE fillFrom(g, k + 1, w, p, filled)

\* variant of fillEmptySpaces: only the top cell of each column is refilled
fillEmptySpacesTop(g, w) ==
    [grid |-> [row \in Rows |-> [col \in Cols |->
                  IF row = 0 /\ g[row][col] = EmptyMark
                  THEN randomInt(w, Cardinality({c \in 0 .. col - 1 : g[0][c] = EmptyMark}),
                                 NUM_GEM_TYPES)
                  ELSE g[row][col]]],
     filled |-> \E col \in Cols : g[0][col] = EmptyMark]

fillEmptySpaces(g, w) == fillFrom(g, 0, w, 0, FALSE)

\* ---------------------------------------------------------------------
\* Shuffle
\* ---------------------------------------------------------------------
\* the Fisher-Yates loop, i = i, i-1, ..., 1 over gems[0 .. n-1]
\* variant of the Fisher-Yates loop: gems[j] is copied to gems[i], not exchanged
RECURSIVE fisherYatesCopy(_, _, _, _)
fisherYatesCopy(gems, i, w, p) ==
    IF i <= 0 THEN [gems |-> gems, pos |-> p]
    ELSE fisherYatesCopy([gems EXCEPT ![i] = gems[randomInt(w, p, i + 1)]], i - 1, w, p + 1)

RECURSIVE fisherYates(_, _, _, _)
fisherYates(gems, i, w, p) ==
    IF i <= 0 THEN [gems |-> gems, pos |-> p]
    ELSE LET j == randomInt(w, p, i + 1)
         IN  fisherYates([gems EXCEPT ![i] = gems[j], ![j] = gems[i]], i - 1, w, p + 1)

\* variant of shuffleBoard: one permutation, and no look at the moves it leaves
shuffleBoardOnce(g, w, p, tries) ==
    LET gems == [k \in 0 .. (ROWS * COLS - 1) |-> g[k \div COLS][k % COLS]]
        fy == fisherYates(gems, ROWS * COLS - 1, w, p)
    IN  [ok |-> TRUE, grid |-> [row \in Rows |-> [col \in Cols |-> fy.gems[row * COLS + col]]]]

\* tries counts the recursive calls; a stream on which no call within
\* MaxShuffleTries leaves a valid move is a run that has not returned (ok = FALSE)
RECURSIVE shuffleBoard(_, _, _, _)
shuffleBoard(g, w, p, tries) ==
    LET gems == [k \in 0 .. (ROWS * COLS - 1) |-> g[k \div COLS][k % COLS]]
        fy == fisherYates(gems, ROWS * COLS - 1, w, p)
        g1 == [row \in Rows |-> [col \in Cols |-> fy.gems[row * COLS + col]]]
        hv == hasValidMoves(g1)
    IN  IF hv.result THEN [ok |-> TRUE, grid |-> hv.grid]
        ELSE IF tries >= MaxShuffleTries THEN [ok |-> FALSE, grid |-> hv.grid]
        ELSE shuffleBoard(hv.grid, w, fy.pos, tries + 1)

\* ---------------------------------------------------------------------
\* Level table (levels.js).  The shapes of the entries are those of the
\* table (score only; score and one gem kind; gem kinds only); move budgets
\* and targets are scaled down so that a level ends within a few swaps.
\* A goal clause that is absent is 0 (score, collectAny) or "present = FALSE".
\* ---------------------------------------------------------------------
NoGemGoal == [present |-> FALSE, type |-> 0, count |-> 0]
GemGoal(t, n) == [present |-> TRUE, type |-> t, count |-> n]

LEVELS ==
    << [id |-> 1, moves |-> 1,
        goals |-> [score |-> 90, collectGem |-> NoGemGoal, collectGem2 |-> NoGemGoal,
                   collectGem3 |-> NoGemGoal, collectAny |-> 0],
        starThresholds |-> <<90, 120, 150>>],
       [id |-> 2, moves |-> 2,
        goals |-> [score |-> 30, collectGem |-> GemGoal(0, 3), collectGem2 |-> NoGemGoal,
                   collectGem3 |-> NoGemGoal, collectAny |-> 0],
        starThresholds |-> <<60, 90, 120>>],
       [id |-> 3, moves |-> 2,
        goals |-> [score |-> 0, collectGem |-> GemGoal(1, 3), collectGem2 |-> GemGoal(2, 3),
                   collectGem3 |-> NoGemGoal, collectAny |-> 0],
        starThresholds |-> <<60, 90, 120>>] >>

LevelIds == {LEVELS[i].id : i \in 1 .. Len(LEVELS)}

\* LEVELS.find(l => l.id === levelId); only used where an entry exists
findLevel(levelId) == LEVELS[CHOOSE i \in 1 .. Len(LEVELS) : LEVELS[i].id = levelId]

\* ---------------------------------------------------------------------
\* Level evaluation
\* ---------------------------------------------------------------------
\* variant of checkAllGoalsComplete: the collectGem2 clause left out
checkAllGoalsCompleteNoGem2(goals, sc, gc, total) ==
    IF goals.score # 0 /\ sc < goals.score THEN FALSE
    ELSE IF goals.collectGem.present /\ gc[goals.collectGem.type] < goals.collectGem.count THEN FALSE
    ELSE IF goals.collectGem3.present /\ gc[goals.collectGem3.type] < goals.collectGem3.count THEN FALSE
    ELSE IF goals.collectAny # 0 /\ total < goals.collectAny THEN FALSE
    ELSE TRUE

checkAllGoalsComplete(goals, sc, gc, total) ==
    IF goals.score # 0 /\ sc < goals.score THEN FALSE
    ELSE IF goals.collectGem.present /\ gc[goals.collectGem.type] < goals.collectGem.count THEN FALSE
    ELSE IF goals.collectGem2.present /\ gc[goals.collectGem2.type] < goals.collectGem2.count THEN FALSE
    ELSE IF goals.collectGem3.present /\ gc[goals.collectGem3.type] < goals.collectGem3.count THEN FALSE
    ELSE IF goals.collectAny # 0 /\ total < goals.collectAny THEN FALSE
    ELSE TRUE

\* which callback checkLevelEnd schedules: showLevelComplete ("Complete"),
\* showLevelFailed ("Failed") or none ("InProgress")
checkLevelEnd(level, sc, moves, gc, total) ==
    IF checkAllGoalsComplete(level.goals, sc, gc, total) THEN "Complete"
    ELSE IF moves <= 0
         THEN IF checkAllGoalsComplete(level.goals, sc, gc, total) THEN "Complete" ELSE "Failed"
         ELSE "InProgress"

\* variant of calculateStars: the scan stops at the first threshold reached
calculateStarsFirst(level, sc) ==
    LET thresholds == level.starThresholds
    IN  IF sc >= thresholds[1] THEN 1
        ELSE IF sc >= thresholds[2] THEN 2
        ELSE IF sc >= thresholds[3] THEN 3 ELSE 0

\* for (i = 0; i < thresholds.length; i++) if (score >= thresholds[i]) stars = i + 1
calculateStars(level, sc) ==
    LET thresholds == level.starThresholds
        s1 == IF sc >= thresholds[1] THEN 1 ELSE 0
        s2 == IF sc >= thresholds[2] THEN 2 ELSE s1
    IN  IF sc >= thresholds[3] THEN 3 ELSE s2

\* variant of isLevelUnlocked: any record of the previous level unlocks
isLevelUnlockedByRecord(progress, levelId) ==
    IF levelId = 1 THEN TRUE
    ELSE (levelId - 1) \in DOMAIN progress

\* levelProgress[levelId - 1]?.completed === true; a level without a record
\* is either outside DOMAIN progress or holds NoProgress
isLevelUnlocked(progress, levelId) ==
    IF levelId = 1 THEN TRUE
    ELSE (levelId - 1) \in DOMAIN progress /\ progress[levelId - 1].completed

\* ---------------------------------------------------------------------
\* State
\* ---------------------------------------------------------------------
VARIABLES
    grid,                \* grid[row][col]
    score,
    selectedGem,         \* <<row, col>> or NoSelection (null)
    isProcessing,
    currentLevel,
    movesLeft,
    totalMoves,
    gemsCollected,       \* counters by kind; key -1 exists once a removed cell was credited
    totalGemsCollected,
    levelProgress,       \* level id -> [completed, stars, bestScore]
    tasks,               \* the trySwap calls in flight, oldest first
    timers,              \* pending setTimeout(showLevelComplete / showLevelFailed, 500), oldest first
    modal,               \* which modals are shown, and the buttons rendered in them
    lastDecision,        \* what checkLevelEnd decided, if it ran in the last step
    done,                \* the trySwap call that returned in the last step, if one did
    lastClick,           \* which branch handleGemClick took, if the last step was a click
    probe,               \* one evaluation of checkAllGoalsComplete (GoalSpec only)
    ops,                 \* number of trySwap, loadLevel and showLevelSelect calls so far
    loads,               \* number of loadLevel calls after start-up
    iterations           \* number of cascade iterations started so far

vars == <<grid, score, selectedGem, isProcessing, currentLevel, movesLeft, totalMoves,
          gemsCollected, totalGemsCollected, levelProgress, tasks, timers, modal,
          lastDecision, done, lastClick, probe, ops, loads, iterations>>

NoSelection == <<0 - 1, 0 - 1>>
NoProgress == [completed |-> FALSE, stars |-> 0, bestScore |-> 0]
AllHidden == [complete |-> FALSE, failed |-> FALSE, select |-> FALSE, nextBtn |-> FALSE, buttons |-> {}]
ZeroCount == [k \in Tokens |-> 0]
NoTask == [pc |-> "none"]
NoProbe == [result |-> "none"]

\* number of cells of each token among the positions ps of board g
countByKind(g, ps) == [k \in Tokens |-> Cardinality({c \in ps : g[c[1]][c[2]] = k})]

\* ---------------------------------------------------------------------
\* trySwap / processMatches.  The operators below work on a record R of the
\* globals a cycle writes (grid, score, counters, timers, isProcessing) and
\* the locals of the trySwap call (R.task); each returns R as it stands at
\* the next await, or with task.pc = "done" when trySwap has returned.
\* ---------------------------------------------------------------------
\* variant of points: the cascade multiplier left out
pointsFlat(matches, cascadeLevel) == Cardinality(matches) * POINTS_PER_GEM

points(matches, cascadeLevel) == Cardinality(matches) * POINTS_PER_GEM * cascadeLevel

\* variant of updateScore: the points taken off the score
updateScoreSub(sc, pts) == sc - pts

updateScore(sc, pts) == sc + pts

\* loop body up to the await in animateMatches
processMatchesCredit(R, matches) ==
    LET cascadeLevel == R.task.cascadeLevel + 1
        credit == countByKind(R.grid, matches)
    IN  [R EXCEPT !.gemsCollected = [k \in Tokens |-> @[k] + credit[k]],
                  !.totalGemsCollected = @ + Cardinality(matches),
                  !.score = updateScore(@, points(matches, cascadeLevel)),
                  !.iterations = @ + 1,
                  !.task = [@ EXCEPT !.cascadeLevel = cascadeLevel,
                                     !.matches = matches,
                                     !.pc = "animate"]]

\* variant of trySwapTail: the valid-move check left out
trySwapTailNoCheck(R) ==
    [R EXCEPT !.isProcessing = FALSE, !.task = [@ EXCEPT !.pc = "done"]]

\* the end of trySwap: the valid-move check and the reset of the flag
trySwapTail(R) ==
    LET hv == hasValidMoves(R.grid) IN
    IF ~hv.result
    THEN [R EXCEPT !.grid = hv.grid, !.task = [@ EXCEPT !.pc = "shuffle"]]
    ELSE [R EXCEPT !.grid = hv.grid, !.isProcessing = FALSE, !.task = [@ EXCEPT !.pc = "done"]]

\* processMatches has returned: checkLevelEnd(), then the end of trySwap.
\* The callback closes over level only; attempt and score are not held by
\* it: they note the loadLevel count and the score at the decision.
afterProcessMatches(R) ==
    LET decision == checkLevelEnd(findLevel(currentLevel), R.score, movesLeft,
                                  R.gemsCollected, R.totalGemsCollected)
        R1 == [R EXCEPT !.lastDecision = decision,
                        !.timers = IF decision = "Complete"
                                   THEN Append(@, [kind |-> "complete", level |-> currentLevel,
                                                   attempt |-> loads, score |-> R.score])
                                   ELSE IF decision = "Failed"
                                   THEN Append(@, [kind |-> "failed", level |-> currentLevel,
                                                   attempt |-> loads, score |-> R.score])
                                   ELSE @]
    IN  trySwapTail(R1)

\* matches = findAllMatches() and the loop test
processMatchesLoop(R) ==
    LET matches == findAllMatches(R.grid) IN
    IF matches # {} THEN processMatchesCredit(R, matches) ELSE afterProcessMatches(R)

\* await fillEmptySpaces()
fillPhase(R, w) ==
    LET f == fillEmptySpaces(R.grid, w)
        R1 == [R EXCEPT !.grid = f.grid]
    IN  IF f.filled THEN [R1 EXCEPT !.task = [@ EXCEPT !.pc = "fill"]]
        ELSE processMatchesLoop(R1)

\* await applyGravity()
gravityPhase(R, w) ==
    LET a == applyGravity(R.grid)
        R1 == [R EXCEPT !.grid = a.grid]
    IN  IF a.gemsFell THEN [R1 EXCEPT !.task = [@ EXCEPT !.pc = "gravity"]]
        ELSE fillPhase(R1, w)

\* removeMatches(matches) after the await in animateMatches
removePhase(R, w) ==
    LET gone == countByKind(R.grid, R.task.matches)
        R1 == [R EXCEPT !.grid = removeMatches(@, R.task.matches),
                        !.task = [@ EXCEPT !.removed = [k \in Tokens |-> @[k] + gone[k]],
                                           !.matches = {}]]
    IN  gravityPhase(R1, w)

\* the swap is accepted: row1 .. col2 and the board before it are not read again
Accepted(t) ==
    [t EXCEPT !.accepted = TRUE, !.a = NoSelection, !.b = NoSelection, !.before.grid = <<>>]

\* the synchronous start of trySwap(row1, col1, row2, col2)
trySwapStart(R, row1, col1, row2, col2) ==
    LET g1 == swap(R.grid, row1, col1, row2, col2)
        matches == findAllMatches(g1)
        R1 == [R EXCEPT !.grid = g1, !.isProcessing = TRUE]
    IN  IF matches # {}
        THEN processMatchesCredit([R1 EXCEPT !.task = Accepted(@)], matches)
        ELSE [R1 EXCEPT !.task = [@ EXCEPT !.pc = "revert"]]

\* variant of revertPhase: the swap back is followed by another delay and
\* another swap back, without end
revertPhaseAgain(R) ==
    LET t == R.task IN
    [R EXCEPT !.grid = swap(@, t.a[1], t.a[2], t.b[1], t.b[2])]

\* the else branch after await delay(ANIMATION_DELAY)
revertPhase(R) ==
    LET t == R.task IN
    trySwapTail([R EXCEPT !.grid = swap(@, t.a[1], t.a[2], t.b[1], t.b[2])])

\* shuffleBoard() after await delay(500); R.task.pc = "stuck" if it does not return
shufflePhase(R, w) ==
    LET sb == shuffleBoard(R.grid, w, 0, 1) IN
    IF sb.ok
    THEN [R EXCEPT !.grid = sb.grid, !.isProcessing = FALSE,
                   !.task = [@ EXCEPT !.pc = "done", !.shuffled = TRUE]]
    ELSE [R EXCEPT !.task = [@ EXCEPT !.pc = "stuck"]]

\* the globals as R, with the locals of task t
World(t) ==
    [grid |-> grid, score |-> score, gemsCollected |-> gemsCollected,
     totalGemsCollected |-> totalGemsCollected, timers |-> timers,
     isProcessing |-> isProcessing, lastDecision |-> "none", iterations |-> iterations,
     task |-> t]

\* The locals of a trySwap call (pc, matches, cascadeLevel, a = row1,col1,
\* b = row2,col2) and a record of what it did: whether the swap was accepted,
\* the globals when it was called (before), the cells it set to -1 by kind
\* (removed) and whether it reshuffled (shuffled).
NewTask(row1, col1, row2, col2) ==
    [pc |-> "start", matches |-> {}, cascadeLevel |-> 0,
     a |-> <<row1, col1>>, b |-> <<row2, col2>>, accepted |-> FALSE,
     before |-> [grid |-> grid, score |-> score, movesLeft |-> movesLeft,
                 gemsCollected |-> gemsCollected, totalGemsCollected |-> totalGemsCollected,
                 loads |-> loads],
     removed |-> ZeroCount, shuffled |-> FALSE]

RemoveAt(seq, i) == [k \in 1 .. (Len(seq) - 1) |-> IF k < i THEN seq[k] ELSE seq[k + 1]]

\* write R back; ts is the task list with R.task put in place or dropped
Commit(R, ts) ==
    /\ R.task.pc # "stuck"
    /\ R.iterations <= MaxIterations
    /\ iterations' = R.iterations
    /\ grid' = R.grid
    /\ score' = R.score
    /\ gemsCollected' = R.gemsCollected
    /\ totalGemsCollected' = R.totalGemsCollected
    /\ timers' = R.timers
    /\ isProcessing' = R.isProcessing
    /\ lastDecision' = R.lastDecision
    /\ done' = IF R.task.pc = "done" THEN R.task ELSE NoTask
    /\ UNCHANGED probe
    /\ tasks' = ts

\* a refill after the last cascade iteration the model follows leaves no match
WithinCascadeBound(R) ==
    R.task.pc = "fill" /\ R.iterations >= MaxIterations => findAllMatches(R.grid) = {}

Resume(i, R) ==
    /\ WithinCascadeBound(R)
    /\ Commit(R, IF R.task.pc = "done" THEN RemoveAt(tasks, i) ELSE [tasks EXCEPT ![i] = R.task])
    /\ lastClick' = "none"
    /\ UNCHANGED <<selectedGem, currentLevel, movesLeft, totalMoves, levelProgress, modal,
                   ops, loads>>

\* ---------------------------------------------------------------------
\* Actions: timer wake-ups of a suspended trySwap
\* ---------------------------------------------------------------------
ResumeAnimate(i) ==
    /\ tasks[i].pc = "animate"
    /\ \E w \in Words : \E R \in {removePhase(World(tasks[i]), w)} : Resume(i, R)

ResumeGravity(i) ==
    /\ tasks[i].pc = "gravity"
    /\ \E w \in Words : \E R \in {fillPhase(World(tasks[i]), w)} : Resume(i, R)

ResumeFill(i) ==
    /\ tasks[i].pc = "fill"
    /\ \E R \in {processMatchesLoop(World(tasks[i]))} : Resume(i, R)

ResumeRevert(i) ==
    /\ tasks[i].pc = "revert"
    /\ \E R \in {revertPhase(World(tasks[i]))} : Resume(i, R)

ResumeShuffle(i) ==
    /\ tasks[i].pc = "shuffle"
    /\ \E w \in Words : \E R \in {shufflePhase(World(tasks[i]), w)} : Resume(i, R)

\* ---------------------------------------------------------------------
\* Actions: clicks on gems
\* ---------------------------------------------------------------------
trySwap(row1, col1, row2, col2) ==
    \E R \in {trySwapStart(World(NewTask(row1, col1, row2, col2)), row1, col1, row2, col2)} :
    /\ Len(tasks) < MaxTasks
    /\ Commit(R, Append(tasks, R.task))
    /\ selectedGem' = NoSelection
    /\ movesLeft' = IF R.task.accepted THEN movesLeft - 1 ELSE movesLeft
    /\ ops' = ops + 1
    /\ lastClick' = "swap"
    /\ UNCHANGED <<currentLevel, totalMoves, levelProgress, modal, loads>>

\* selectGem / deselectGem: only the selection changes
setSelection(sel, branch) ==
    /\ selectedGem' = sel
    /\ lastDecision' = "none"
    /\ lastClick' = branch
    /\ done' = NoTask
    /\ UNCHANGED probe
    /\ UNCHANGED <<grid, score, isProcessing, currentLevel, movesLeft, totalMoves,
                   gemsCollected, totalGemsCollected, levelProgress, tasks, timers,
                   modal, ops, loads, iterations>>

handleGemClick(row, col) ==
    IF isProcessing THEN UNCHANGED vars
    ELSE IF ops >= MaxOps THEN FALSE   \* clicks beyond the bound are not followed
    ELSE IF selectedGem = NoSelection THEN setSelection(<<row, col>>, "select")
    ELSE IF selectedGem = <<row, col>> THEN setSelection(NoSelection, "deselect")
    ELSE IF isAdjacent(selectedGem, <<row, col>>)
         THEN trySwap(selectedGem[1], selectedGem[2], row, col)
         ELSE setSelection(<<row, col>>, "reselect")

\* showHint(): the hint highlight is not part of the state; what remains is
\* the scan of findValidMove on the grid
showHint ==
    IF isProcessing THEN UNCHANGED vars
    ELSE /\ grid' = findValidMove(grid).grid
         /\ lastDecision' = "none"
         /\ lastClick' = "none"
         /\ done' = NoTask
         /\ UNCHANGED probe
         /\ UNCHANGED <<score, selectedGem, isProcessing, currentLevel, movesLeft, totalMoves,
                        gemsCollected, totalGemsCollected, levelProgress, tasks, timers,
                        modal, ops, loads, iterations>>

\* ---------------------------------------------------------------------
\* loadLevel and the buttons that call it
\* ---------------------------------------------------------------------
\* createGrid() and the valid-move check of loadLevel, on stream w
newBoard(w) ==
    LET cg == createGrid(w, 0)
        hv == hasValidMoves(cg.grid)
    IN  IF hv.result THEN [ok |-> TRUE, grid |-> hv.grid]
        ELSE shuffleBoard(hv.grid, w, cg.pos, 1)

\* the boards loadLevel can produce, one per stream on which it returns
NewBoards == {newBoard(w).grid : w \in {v \in Words : newBoard(v).ok}}

\* variant of loadLevel: an id that is not in the table loads the first level
loadLevelOrFirst(levelId) ==
    /\ ops < MaxOps
    /\ ops' = ops + 1
    /\ loads' = loads + 1
    /\ lastDecision' = "none"
    /\ lastClick' = "none"
    /\ done' = NoTask
    /\ UNCHANGED probe
    /\ IF FALSE
       THEN UNCHANGED <<grid, score, selectedGem, isProcessing, currentLevel, movesLeft,
                        totalMoves, gemsCollected, totalGemsCollected, levelProgress,
                        tasks, timers, modal, iterations>>
       ELSE \E nb \in NewBoards :
              LET level == findLevel(IF levelId \in LevelIds THEN levelId ELSE 1)
              IN  /\ currentLevel' = level.id
                  /\ score' = updateScore(0, 0)
                  /\ movesLeft' = level.moves
                  /\ totalMoves' = level.moves
                  /\ selectedGem' = NoSelection
                  /\ isProcessing' = FALSE
                  /\ gemsCollected' = ZeroCount
                  /\ totalGemsCollected' = 0
                  /\ grid' = nb
                  /\ modal' = [modal EXCEPT !.complete = FALSE, !.failed = FALSE, !.select = FALSE]
                  /\ UNCHANGED <<levelProgress, tasks, timers, iterations>>

\* variant of loadLevel: the score of the run before is not cleared
loadLevelKeepScore(levelId) ==
    /\ ops < MaxOps
    /\ ops' = ops + 1
    /\ loads' = loads + 1
    /\ lastDecision' = "none"
    /\ lastClick' = "none"
    /\ done' = NoTask
    /\ UNCHANGED probe
    /\ IF levelId \notin LevelIds
       THEN UNCHANGED <<grid, score, selectedGem, isProcessing, currentLevel, movesLeft,
                        totalMoves, gemsCollected, totalGemsCollected, levelProgress,
                        tasks, timers, modal, iterations>>
       ELSE \E nb \in NewBoards :
              LET level == findLevel(levelId)
              IN  /\ currentLevel' = levelId
                  /\ score' = updateScore(score, 0)
                  /\ movesLeft' = level.moves
                  /\ totalMoves' = level.moves
                  /\ selectedGem' = NoSelection
                  /\ isProcessing' = FALSE
                  /\ gemsCollected' = ZeroCount
                  /\ totalGemsCollected' = 0
                  /\ grid' = nb
                  /\ modal' = [modal EXCEPT !.complete = FALSE, !.failed = FALSE, !.select = FALSE]
                  /\ UNCHANGED <<levelProgress, tasks, timers, iterations>>

loadLevel(levelId) ==
    /\ ops < MaxOps
    /\ ops' = ops + 1
    /\ loads' = loads + 1
    /\ lastDecision' = "none"
    /\ lastClick' = "none"
    /\ done' = NoTask
    /\ UNCHANGED probe
    /\ IF levelId \notin LevelIds
       THEN UNCHANGED <<grid, score, selectedGem, isProcessing, currentLevel, movesLeft,
                        totalMoves, gemsCollected, totalGemsCollected, levelProgress,
                        tasks, timers, modal, iterations>>
       ELSE \E nb \in NewBoards :
              LET level == findLevel(levelId)
              IN  /\ currentLevel' = levelId
                  /\ score' = updateScore(0, 0)
                  /\ movesLeft' = level.moves
                  /\ totalMoves' = level.moves
                  /\ selectedGem' = NoSelection
                  /\ isProcessing' = FALSE
                  /\ gemsCollected' = ZeroCount
                  /\ totalGemsCollected' = 0
                  /\ grid' = nb
                  /\ modal' = [modal EXCEPT !.complete = FALSE, !.failed = FALSE, !.select = FALSE]
                  /\ UNCHANGED <<levelProgress, tasks, timers, iterations>>

RetryClick == modal.failed /\ loadLevel(currentLevel)

NextLevelClick ==
    /\ modal.complete
    /\ modal.nextBtn
    /\ currentLevel < Len(LEVELS)
    /\ loadLevel(currentLevel + 1)

LevelButtonClick(levelId) ==
    /\ modal.select
    /\ levelId \in modal.buttons
    /\ loadLevel(levelId)

RestartClick == loadLevel(currentLevel)

\* showLevelSelect(): one button per level, enabled for the unlocked ones
showLevelSelect(m) ==
    /\ ops < MaxOps
    /\ ops' = ops + 1
    /\ modal' = [m EXCEPT !.select = TRUE,
                          !.buttons = {id \in LevelIds : isLevelUnlocked(levelProgress, id)}]
    /\ lastDecision' = "none"
    /\ lastClick' = "none"
    /\ done' = NoTask
    /\ UNCHANGED probe
    /\ UNCHANGED <<grid, score, selectedGem, isProcessing, currentLevel, movesLeft, totalMoves,
                   gemsCollected, totalGemsCollected, levelProgress, tasks, timers,
                   loads, iterations>>

hideAllModals(m) == [m EXCEPT !.complete = FALSE, !.failed = FALSE, !.select = FALSE]

LevelsClick == showLevelSelect(modal)

ModalLevelsClick == modal.complete /\ showLevelSelect(hideAllModals(modal))

FailedLevelsClick == modal.failed /\ showLevelSelect(hideAllModals(modal))

CloseLevelsClick ==
    /\ modal.select
    /\ modal' = [modal EXCEPT !.select = FALSE]
    /\ lastDecision' = "none"
    /\ lastClick' = "none"
    /\ done' = NoTask
    /\ UNCHANGED probe
    /\ UNCHANGED <<grid, score, selectedGem, isProcessing, currentLevel, movesLeft, totalMoves,
                   gemsCollected, totalGemsCollected, levelProgress, tasks, timers,
                   ops, loads, iterations>>

\* ---------------------------------------------------------------------
\* Timer callbacks scheduled by checkLevelEnd (equal delays: oldest first)
\* ---------------------------------------------------------------------
\* variant of updateProgress: the new result replaces the stored one
updateProgressOverwrite(progress, level, sc) ==
    [progress EXCEPT ![level.id] =
        [completed |-> TRUE, stars |-> calculateStars(level, sc), bestScore |-> sc]]

\* the "Update progress" block of showLevelComplete; a level without a record
\* holds NoProgress, which reads as the code's `|| {}` and `|| 0` do
updateProgress(progress, level, sc) ==
    LET stars == calculateStars(level, sc)
        existingProgress == progress[level.id]
    IN  [progress EXCEPT ![level.id] =
            [completed |-> TRUE,
             stars |-> IF existingProgress.stars >= stars
                       THEN existingProgress.stars ELSE stars,
             bestScore |-> IF existingProgress.bestScore >= sc
                           THEN existingProgress.bestScore ELSE sc]]

showLevelComplete ==
    /\ timers # <<>>
    /\ Head(timers).kind = "complete"
    /\ levelProgress' = updateProgress(levelProgress, findLevel(Head(timers).level), score)
    /\ modal' = [modal EXCEPT !.complete = TRUE, !.nextBtn = (currentLevel < Len(LEVELS))]
    /\ timers' = Tail(timers)
    /\ lastDecision' = "none"
    /\ lastClick' = "none"
    /\ done' = NoTask
    /\ UNCHANGED probe
    /\ UNCHANGED <<grid, score, selectedGem, isProcessing, currentLevel, movesLeft, totalMoves,
                   gemsCollected, totalGemsCollected, tasks, ops, loads, iterations>>

showLevelFailed ==
    /\ timers # <<>>
    /\ Head(timers).kind = "failed"
    /\ modal' = [modal EXCEPT !.failed = TRUE]
    /\ timers' = Tail(timers)
    /\ lastDecision' = "none"
    /\ lastClick' = "none"
    /\ done' = NoTask
    /\ UNCHANGED probe
    /\ UNCHANGED <<grid, score, selectedGem, isProcessing, currentLevel, movesLeft, totalMoves,
                   gemsCollected, totalGemsCollected, levelProgress, tasks, ops, loads, iterations>>

\* ---------------------------------------------------------------------
\* Specification.  Init is the state after initGame() with an empty
\* progress store: loadProgress() leaves levelProgress = {} and
\* currentLevel = 1, then loadLevel(1) runs.
\* ---------------------------------------------------------------------
Init ==
    /\ grid \in NewBoards
    /\ score = 0
    /\ selectedGem = NoSelection
    /\ isProcessing = FALSE
    /\ currentLevel = 1
    /\ movesLeft = findLevel(1).moves
    /\ totalMoves = findLevel(1).moves
    /\ gemsCollected = ZeroCount
    /\ totalGemsCollected = 0
    /\ levelProgress = [id \in LevelIds |-> NoProgress]
    /\ tasks = <<>>
    /\ timers = <<>>
    /\ modal = AllHidden
    /\ lastDecision = "none"
    /\ done = NoTask
    /\ lastClick = "none"
    /\ probe = NoProbe
    /\ ops = 0
    /\ loads = 0
    /\ iterations = 0

Next ==
    \/ \E row \in 0 .. MaxClickRow, col \in 0 .. MaxClickCol : handleGemClick(row, col)
    \/ \E i \in 1 .. Len(tasks) : ResumeAnimate(i)
    \/ \E i \in 1 .. Len(tasks) : ResumeGravity(i)
    \/ \E i \in 1 .. Len(tasks) : ResumeFill(i)
    \/ \E i \in 1 .. Len(tasks) : ResumeRevert(i)
    \/ \E i \in 1 .. Len(tasks) : ResumeShuffle(i)
    \/ showHint
    \/ showLevelComplete
    \/ showLevelFailed
    \/ RetryClick
    \/ NextLevelClick
    \/ \E levelId \in LevelIds : LevelButtonClick(levelId)
    \/ RestartClick
    \/ LevelsClick
    \/ ModalLevelsClick
    \/ FailedLevelsClick
    \/ CloseLevelsClick

Spec == Init /\ [][Next]_vars

\* a timer wake-up of some suspended trySwap
wake ==
    \E i \in 1 .. Len(tasks) :
        \/ ResumeAnimate(i)
        \/ ResumeGravity(i)
        \/ ResumeFill(i)
        \/ ResumeRevert(i)
        \/ ResumeShuffle(i)

\* The delays are browser timers: a trySwap suspended at an await is woken
\* when its timer has run out.  This is weak fairness of wake, WF_vars(wake),
\* with "wake is enabled" written as "a trySwap is in flight": behaviours
\* that end where the bounds of the model stop following a cycle (a refill
\* that matches after MaxIterations, a shuffleBoard beyond MaxShuffleTries)
\* are thereby left out, as runs that have not finished.
Fairness == []<>(tasks = <<>>) \/ []<><<wake>>_vars

LiveSpec == Spec /\ Fairness

\* ---------------------------------------------------------------------
\* checkAllGoalsComplete as a function of its inputs: goals objects built
\* from the clause shapes of levels.js (each clause present or absent) and
\* run states around the targets.
\* ---------------------------------------------------------------------
GoalScores == {0, 30}
GoalAny == {0, 6}
GoalObjects ==
    [score : GoalScores,
     collectGem : {NoGemGoal, GemGoal(0, 3)},
     collectGem2 : {NoGemGoal, GemGoal(1, 3)},
     collectGem3 : {NoGemGoal, GemGoal(2, 3)},
     collectAny : GoalAny]
ProbeScores == {0, 20, 30}
ProbeCounts == {0, 2, 3}
ProbeTotals == {0, 5, 6}

evaluateGoals ==
    /\ probe = NoProbe
    /\ \E goals \in GoalObjects, sc \in ProbeScores, total \in ProbeTotals,
          c0 \in ProbeCounts, c1 \in ProbeCounts, c2 \in ProbeCounts :
        LET gc == [k \in Tokens |-> IF k = 0 THEN c0 ELSE IF k = 1 THEN c1
                                    ELSE IF k = 2 THEN c2 ELSE 0]
        IN  /\ probe' = [goals |-> goals, score |-> sc, gemsCollected |-> gc,
                         totalGemsCollected |-> total,
                         result |-> checkAllGoalsComplete(goals, sc, gc, total)]
            /\ UNCHANGED <<grid, score, selectedGem, isProcessing, currentLevel, movesLeft,
                           totalMoves, gemsCollected, totalGemsCollected, levelProgress,
                           tasks, timers, modal, lastDecision, done, lastClick, ops, loads, iterations>>

GoalNext == evaluateGoals

GoalSpec == Init /\ [][GoalNext]_vars

\* every variable but probe
program == <<grid, score, selectedGem, isProcessing, currentLevel, movesLeft, totalMoves,
             gemsCollected, totalGemsCollected, levelProgress, tasks, timers, modal,
             lastDecision, done, lastClick, ops, loads, iterations>>

\* ---------------------------------------------------------------------
\* calculateStars as a function of its inputs: threshold triples in any
\* order (levels.js only has increasing ones) and scores around them.
\* ---------------------------------------------------------------------
StarThresholds == [1 .. 3 -> {30, 60, 90}]
StarScores == {0, 20, 30, 50, 60, 80, 90, 100}

evaluateStars ==
    /\ probe = NoProbe
    /\ \E thresholds \in StarThresholds, sc \in StarScores :
          probe' = [thresholds |-> thresholds, score |-> sc,
                    result |-> calculateStars([starThresholds |-> thresholds], sc)]
    /\ UNCHANGED program

StarNext == evaluateStars

StarSpec == Init /\ [][StarNext]_vars

\* ---------------------------------------------------------------------
\* The progress update of showLevelComplete over sequences of completions:
\* each step completes some level of the table with some final score,
\* starting from the empty store.
\* ---------------------------------------------------------------------
MaxCompletions == 3
CompletionScores == {0, 60, 90, 120, 150}

completeLevel ==
    /\ IF probe = NoProbe THEN TRUE ELSE probe.completions < MaxCompletions
    /\ \E id \in LevelIds, sc \in CompletionScores :
          LET before == IF probe = NoProbe THEN levelProgress ELSE probe.after
              n == IF probe = NoProbe THEN 0 ELSE probe.completions
          IN  probe' = [before |-> before, level |-> id, score |-> sc,
                        after |-> updateProgress(before, findLevel(id), sc),
                        completions |-> n + 1, result |-> "stored"]
    /\ UNCHANGED program

ProgressNext == completeLevel

ProgressSpec == Init /\ [][ProgressNext]_vars

\* ---------------------------------------------------------------------
\* isLevelUnlocked as a function of its inputs: progress stores as
\* loadProgress can read them (any subset of the levels has a record,
\* completed or not) and level ids up to one past the table.
\* ---------------------------------------------------------------------
StoredRecords == {[completed |-> TRUE, stars |-> 1, bestScore |-> 90],
                  [completed |-> FALSE, stars |-> 0, bestScore |-> 0]}
StoredProgress == UNION {[D -> StoredRecords] : D \in SUBSET LevelIds}

evaluateUnlocked ==
    /\ probe = NoProbe
    /\ \E progress \in StoredProgress, levelId \in 1 .. Len(LEVELS) + 1 :
          probe' = [progress |-> progress, levelId |-> levelId,
                    result |-> isLevelUnlocked(progress, levelId)]
    /\ UNCHANGED program

UnlockNext == evaluateUnlocked

UnlockSpec == Init /\ [][UnlockNext]_vars

\* ---------------------------------------------------------------------
\* findAllMatches, hasValidMoves and findValidMove as functions of the
\* board: the grid starts as any full board of the kinds or any board of two
\* kinds and Empty, and each step is one call on the grid as the call before
\* left it.
\* ---------------------------------------------------------------------
MaxCalls == 2
BoardTokens == {EmptyMark, 0, 1}
BoardInputs == [Rows -> [Cols -> Kinds]] \cup [Rows -> [Cols -> BoardTokens]]

\* every variable but grid and probe
run == <<score, selectedGem, isProcessing, currentLevel, movesLeft, totalMoves,
         gemsCollected, totalGemsCollected, levelProgress, tasks, timers, modal,
         lastDecision, done, lastClick, ops, loads, iterations>>

BoardInit ==
    /\ grid \in BoardInputs
    /\ score = 0
    /\ selectedGem = NoSelection
    /\ isProcessing = FALSE
    /\ currentLevel = 1
    /\ movesLeft = findLevel(1).moves
    /\ totalMoves = findLevel(1).moves
    /\ gemsCollected = ZeroCount
    /\ totalGemsCollected = 0
    /\ levelProgress = [id \in LevelIds |-> NoProgress]
    /\ tasks = <<>>
    /\ timers = <<>>
    /\ modal = AllHidden
    /\ lastDecision = "none"
    /\ done = NoTask
    /\ lastClick = "none"
    /\ probe = NoProbe
    /\ ops = 0
    /\ loads = 0
    /\ iterations = 0

\* the record of one call: its name, the grid it ran on, what it returned,
\* and the call before it
Called(name, result) ==
    [call |-> name, board |-> grid, result |-> result,
     calls |-> IF probe = NoProbe THEN 1 ELSE probe.calls + 1,
     earlier |-> IF probe = NoProbe THEN [call |-> "none", result |-> "none"]
                 ELSE [call |-> probe.call, result |-> probe.result]]

MoreCalls == IF probe = NoProbe THEN TRUE ELSE probe.calls < MaxCalls

callFindAllMatches ==
    /\ MoreCalls
    /\ probe' = Called("findAllMatches", findAllMatches(grid))
    /\ UNCHANGED grid
    /\ UNCHANGED run

callHasValidMoves ==
    /\ MoreCalls
    /\ \E hv \in {hasValidMoves(grid)} :
          /\ probe' = Called("hasValidMoves", hv.result)
          /\ grid' = hv.grid
    /\ UNCHANGED run

callFindValidMove ==
    /\ MoreCalls
    /\ \E fm \in {findValidMove(grid)} :
          /\ probe' = Called("findValidMove", fm.move)
          /\ grid' = fm.grid
    /\ UNCHANGED run

BoardNext ==
    \/ callFindAllMatches
    \/ callHasValidMoves
    \/ callFindValidMove

BoardSpec == BoardInit /\ [][BoardNext]_vars

\* ---------------------------------------------------------------------
\* createGrid cell by cell: the grid starts unset (grid = []), and each step
\* is one pass of the inner loop, grid[row][col] = getRandomGemWithoutMatch(
\* row, col), on a stream of its own.  Besides the words of the game there
\* are the words that repeat one value for MaxAttempts draws, on which the
\* do-while loop runs into its cap.
\* ---------------------------------------------------------------------
StuckWords == {[i \in 0 .. (MaxAttempts - 1) |-> v] : v \in 0 .. (RandomSteps - 1)}
CreateWords == Words \cup StuckWords

\* the run state loadLevel has set when it calls createGrid
RunStart ==
    /\ score = 0
    /\ selectedGem = NoSelection
    /\ isProcessing = FALSE
    /\ currentLevel = 1
    /\ movesLeft = findLevel(1).moves
    /\ totalMoves = findLevel(1).moves
    /\ gemsCollected = ZeroCount
    /\ totalGemsCollected = 0
    /\ levelProgress = [id \in LevelIds |-> NoProgress]
    /\ tasks = <<>>
    /\ timers = <<>>
    /\ modal = AllHidden
    /\ lastDecision = "none"
    /\ done = NoTask
    /\ lastClick = "none"
    /\ ops = 0
    /\ loads = 0
    /\ iterations = 0

CreateInit ==
    /\ grid = [row \in Rows |-> [col \in Cols |-> EmptyMark]]
    /\ probe = [cells |-> 0, capped |-> {}, result |-> "createGrid"]
    /\ RunStart

\* probe.cells counts the cells set so far; probe.capped holds the cells
\* whose loop ended by `if (attempts >= 100) break`
placeGem ==
    /\ probe.cells < ROWS * COLS
    /\ \E w \in CreateWords :
          LET row == probe.cells \div COLS
              col == probe.cells % COLS
              d == getRandomGemWithoutMatch(grid, row, col, w, 0)
          IN  /\ grid' = [grid EXCEPT ![row][col] = d.gem]
              /\ probe' = [cells |-> probe.cells + 1,
                            capped |-> IF d.pos >= MaxAttempts
                                       THEN probe.capped \cup {<<row, col>>}
                                       ELSE probe.capped,
                            result |-> "createGrid"]
    /\ UNCHANGED run

CreateNext == placeGem

CreateSpec == CreateInit /\ [][CreateNext]_vars

\* ---------------------------------------------------------------------
\* loadLevel as a function of its argument and of the run it interrupts:
\* the run is a fresh one or one after a first accepted swap of three gems,
\* and the id is one of the table, 0, or one past the table.
\* ---------------------------------------------------------------------
LoadIds == 0 .. Len(LEVELS) + 1

LoadInit ==
    /\ grid \in NewBoards
    /\ currentLevel \in LevelIds
    /\ totalMoves = findLevel(currentLevel).moves
    /\ \E k \in Kinds \cup {EmptyMark} :
          IF k = EmptyMark
          THEN /\ score = 0
               /\ movesLeft = totalMoves
               /\ gemsCollected = ZeroCount
               /\ totalGemsCollected = 0
          ELSE /\ score = 3 * POINTS_PER_GEM
               /\ movesLeft = totalMoves - 1
               /\ gemsCollected = [ZeroCount EXCEPT ![k] = 3]
               /\ totalGemsCollected = 3
    /\ selectedGem \in {NoSelection, <<0, 0>>}
    /\ isProcessing = FALSE
    /\ levelProgress = [id \in LevelIds |-> NoProgress]
    /\ tasks = <<>>
    /\ timers = <<>>
    /\ modal = AllHidden
    /\ lastDecision = "none"
    /\ done = NoTask
    /\ lastClick = "none"
    /\ probe = NoProbe
    /\ ops = 0
    /\ loads = 0
    /\ iterations = 0

LoadNext == \E levelId \in LoadIds : loadLevel(levelId)

LoadSpec == LoadInit /\ [][LoadNext]_vars

\* ---------------------------------------------------------------------
\* applyGravity and fillEmptySpaces as functions of the board: the grid
\* starts as any board of two kinds and Empty (Empty cells anywhere, not
\* only where removeMatches leaves them), and each step is one call on the
\* grid as the call before left it.
\* ---------------------------------------------------------------------
RefillInit ==
    /\ grid \in [Rows -> [Cols -> BoardTokens]]
    /\ probe = NoProbe
    /\ RunStart

callApplyGravity ==
    /\ MoreCalls
    /\ \E a \in {applyGravity(grid)} :
          /\ probe' = Called("applyGravity", a.gemsFell)
          /\ grid' = a.grid
    /\ UNCHANGED run

callFillEmptySpaces ==
    /\ MoreCalls
    /\ \E w \in Words : \E f \in {fillEmptySpaces(grid, w)} :
          /\ probe' = Called("fillEmptySpaces", [filled |-> f.filled, stream |-> w])
          /\ grid' = f.grid
    /\ UNCHANGED run

RefillNext ==
    \/ callApplyGravity
    \/ callFillEmptySpaces

RefillSpec == RefillInit /\ [][RefillNext]_vars

\* ---------------------------------------------------------------------
\* shuffleBoard call by call: the grid starts as any full board of the kinds
\* of the game without a valid move (both callers, loadLevel and trySwap,
\* call it on such a board only), or as a board of StuckKinds kinds on which
\* no kind has three cells, and each step is one call of shuffleBoard (the first, or the one
\* the call before made on finding no valid move) with the draws of a word
\* of its own.  The recursion has no bound, so the calls are not counted:
\* probe.retried only says that the first call has called again, and
\* probe.counts keeps, of the board the first call was made on, the number
\* of cells of each kind.  A call
\* that finds a valid move returns, and with it every call above it.
\* ---------------------------------------------------------------------
StuckKinds == 5
StuckBoards == {[row \in Rows |-> [col \in Cols |-> (row * COLS + col) % StuckKinds]]}
ShuffleInputs ==
    {b \in [Rows -> [Cols -> Kinds]] : ~hasValidMoves(b).result} \cup StuckBoards

Count(b, t) == Cardinality({c \in Cells : b[c[1]][c[2]] = t})
ShuffleTokens == {EmptyMark} \cup (0 .. StuckKinds)

ShuffleInit ==
    /\ grid \in ShuffleInputs
    /\ probe = [call |-> "shuffleBoard", status |-> "running", retried |-> FALSE,
                moved |-> FALSE, counts |-> [t \in ShuffleTokens |-> Count(grid, t)]]
    /\ RunStart

\* one call: the word holds the draws of this call only, so the call the
\* operator would make on the same word is left to the next step
shuffleBoardCall(w) ==
    /\ probe.status = "running"
    /\ \E sb \in {shuffleBoard(grid, w, 0, MaxShuffleTries)} :
          /\ grid' = sb.grid
          /\ probe' = [probe EXCEPT !.status = IF sb.ok THEN "returned" ELSE "running",
                                    !.retried = ~sb.ok \/ probe.retried,
                                    !.moved = sb.grid # grid \/ probe.moved]
    /\ UNCHANGED run

shuffleBoardStep == \E w \in Words : shuffleBoardCall(w)

\* the calls whose permutation leaves a valid move
shuffleBoardReturns == probe.status = "running" /\ probe'.status = "returned"

ShuffleNext == shuffleBoardStep

\* Math.random is fair: a permutation that can be drawn again and again is
\* drawn.  This is SF_vars(shuffleBoardReturns) with the ENABLED of the
\* action written out as the state predicate it is (a board with a valid
\* move has a run one swap away, so it has three cells of one kind: the
\* permutations are only looked at on such a board).
shuffleBoardCanReturn ==
    /\ probe.status = "running"
    /\ \E t \in ShuffleTokens : Count(grid, t) >= 3
    /\ \E w \in Words : shuffleBoard(grid, w, 0, MaxShuffleTries).ok
ShuffleFairness == <>[](~shuffleBoardCanReturn) \/ []<><<shuffleBoardReturns>>_vars

ShuffleSpec == ShuffleInit /\ [][ShuffleNext]_vars /\ ShuffleFairness

\* ---------------------------------------------------------------------
\* The level table as levels.js has it (the game above runs on the scaled
\* table LEVELS): every entry with its id, move budget, goals and star
\* thresholds; name and description are left out.  A score or collectAny
\* clause is Target(n) or absent, a collectGem clause GemGoal(type, count)
\* or absent.  The steps look entries up as loadLevel does, go to the next
\* level as the next-level button does, and rate a score on an entry's
\* thresholds.
\* ---------------------------------------------------------------------
TableGemTypes == 6
NoTarget == [present |-> FALSE, target |-> 0]
Target(n) == [present |-> TRUE, target |-> n]

\* variant of the table: the second entry has id 3, no moves and two equal thresholds
LevelTableGap ==
    << [id |-> 1, moves |-> 20,
        goals |-> [score |-> Target(500), collectGem |-> NoGemGoal, collectGem2 |-> NoGemGoal,
                   collectGem3 |-> NoGemGoal, collectAny |-> NoTarget],
        starThresholds |-> <<500, 800, 1200>>],
       [id |-> 3, moves |-> 0,
        goals |-> [score |-> Target(500), collectGem |-> GemGoal(0, 10), collectGem2 |-> NoGemGoal,
                   collectGem3 |-> NoGemGoal, collectAny |-> NoTarget],
        starThresholds |-> <<500, 500, 1500>>] >>

LevelTable ==
    <<   [id |-> 1, moves |-> 20,
        goals |-> [score |-> Target(500), collectGem |-> NoGemGoal, collectGem2 |-> NoGemGoal,
                   collectGem3 |-> NoGemGoal, collectAny |-> NoTarget],
        starThresholds |-> <<500, 800, 1200>>],
       [id |-> 2, moves |-> 20,
        goals |-> [score |-> Target(1000), collectGem |-> NoGemGoal, collectGem2 |-> NoGemGoal,
                   collectGem3 |-> NoGemGoal, collectAny |-> NoTarget],
        starThresholds |-> <<1000, 1500, 2000>>],
       [id |-> 3, moves |-> 15,
        goals |-> [score |-> Target(500), collectGem |-> GemGoal(0, 10), collectGem2 |-> NoGemGoal,
                   collectGem3 |-> NoGemGoal, collectAny |-> NoTarget],
        starThresholds |-> <<500, 1000, 1500>>],
       [id |-> 4, moves |-> 15,
        goals |-> [score |-> Target(600), collectGem |-> GemGoal(1, 12), collectGem2 |-> NoGemGoal,
                   collectGem3 |-> NoGemGoal, collectAny |-> NoTarget],
        starThresholds |-> <<600, 1200, 1800>>],
       [id |-> 5, moves |-> 18,
        goals |-> [score |-> Target(1500), collectGem |-> NoGemGoal, collectGem2 |-> NoGemGoal,
                   collectGem3 |-> NoGemGoal, collectAny |-> NoTarget],
        starThresholds |-> <<1500, 2500, 3500>>],
       [id |-> 6, moves |-> 18,
        goals |-> [score |-> Target(800), collectGem |-> GemGoal(2, 15), collectGem2 |-> NoGemGoal,
                   collectGem3 |-> NoGemGoal, collectAny |-> NoTarget],
        starThresholds |-> <<800, 1500, 2200>>],
       [id |-> 7, moves |-> 16,
        goals |-> [score |-> Target(1000), collectGem |-> GemGoal(3, 15), collectGem2 |-> NoGemGoal,
                   collectGem3 |-> NoGemGoal, collectAny |-> NoTarget],
        starThresholds |-> <<1000, 1800, 2600>>],
       [id |-> 8, moves |-> 20,
        goals |-> [score |-> NoTarget, collectGem |-> GemGoal(4, 20), collectGem2 |-> NoGemGoal,
                   collectGem3 |-> NoGemGoal, collectAny |-> NoTarget],
        starThresholds |-> <<1000, 2000, 3000>>],
       [id |-> 9, moves |-> 15,
        goals |-> [score |-> Target(1200), collectGem |-> GemGoal(5, 12), collectGem2 |-> NoGemGoal,
                   collectGem3 |-> NoGemGoal, collectAny |-> NoTarget],
        starThresholds |-> <<1200, 2000, 2800>>],
       [id |-> 10, moves |-> 25,
        goals |-> [score |-> Target(3000), collectGem |-> NoGemGoal, collectGem2 |-> NoGemGoal,
                   collectGem3 |-> NoGemGoal, collectAny |-> NoTarget],
        starThresholds |-> <<3000, 4500, 6000>>],
       [id |-> 11, moves |-> 20,
        goals |-> [score |-> NoTarget, collectGem |-> GemGoal(0, 10), collectGem2 |-> GemGoal(1, 10),
                   collectGem3 |-> NoGemGoal, collectAny |-> NoTarget],
        starThresholds |-> <<1500, 2500, 3500>>],
       [id |-> 12, moves |-> 22,
        goals |-> [score |-> Target(2500), collectGem |-> NoGemGoal, collectGem2 |-> NoGemGoal,
                   collectGem3 |-> NoGemGoal, collectAny |-> Target(50)],
        starThresholds |-> <<2500, 4000, 5500>>],
       [id |-> 13, moves |-> 12,
        goals |-> [score |-> Target(1500), collectGem |-> NoGemGoal, collectGem2 |-> NoGemGoal,
                   collectGem3 |-> NoGemGoal, collectAny |-> NoTarget],
        starThresholds |-> <<1500, 2200, 3000>>],
       [id |-> 14, moves |-> 25,
        goals |-> [score |-> NoTarget, collectGem |-> GemGoal(0, 8), collectGem2 |-> GemGoal(2, 8),
                   collectGem3 |-> GemGoal(4, 8), collectAny |-> NoTarget],
        starThresholds |-> <<2000, 3500, 5000>>],
       [id |-> 15, moves |-> 18,
        goals |-> [score |-> Target(4000), collectGem |-> NoGemGoal, collectGem2 |-> NoGemGoal,
                   collectGem3 |-> NoGemGoal, collectAny |-> NoTarget],
        starThresholds |-> <<4000, 5500, 7000>>],
       [id |-> 16, moves |-> 15,
        goals |-> [score |-> Target(3500), collectGem |-> GemGoal(3, 15), collectGem2 |-> NoGemGoal,
                   collectGem3 |-> NoGemGoal, collectAny |-> NoTarget],
        starThresholds |-> <<3500, 5000, 6500>>],
       [id |-> 17, moves |-> 20,
        goals |-> [score |-> Target(5000), collectGem |-> NoGemGoal, collectGem2 |-> NoGemGoal,
                   collectGem3 |-> NoGemGoal, collectAny |-> NoTarget],
        starThresholds |-> <<5000, 7000, 9000>>],
       [id |-> 18, moves |-> 22,
        goals |-> [score |-> NoTarget, collectGem |-> GemGoal(1, 12), collectGem2 |-> GemGoal(3, 12),
                   collectGem3 |-> GemGoal(5, 12), collectAny |-> NoTarget],
        starThresholds |-> <<3000, 5000, 7000>>],
       [id |-> 19, moves |-> 10,
        goals |-> [score |-> Target(2000), collectGem |-> NoGemGoal, collectGem2 |-> NoGemGoal,
                   collectGem3 |-> NoGemGoal, collectAny |-> NoTarget],
        starThresholds |-> <<2000, 3000, 4000>>],
       [id |-> 20, moves |-> 25,
        goals |-> [score |-> Target(8000), collectGem |-> NoGemGoal, collectGem2 |-> NoGemGoal,
                   collectGem3 |-> NoGemGoal, collectAny |-> Target(80)],
        starThresholds |-> <<8000, 10000, 12000>>] >>

\* LEVELS.find(l => l.id === levelId): the first entry with the id, or undefined
NoLevel == [id |-> 0]
findTableLevel(levelId) ==
    LET hits == {i \in 1 .. Len(LevelTable) : LevelTable[i].id = levelId}
    IN  IF hits = {} THEN NoLevel
        ELSE LevelTable[CHOOSE i \in hits : \A o \in hits : i <= o]

TableIds == 0 .. Len(LevelTable) + 1

lookUpLevel ==
    /\ \E levelId \in TableIds :
          probe' = [call |-> "find", id |-> levelId, level |-> findTableLevel(levelId),
                    score |-> 0, result |-> 0, from |-> 0]
    /\ UNCHANGED program

\* next-level button: if (currentLevel < LEVELS.length) loadLevel(currentLevel + 1)
nextTableLevel ==
    /\ probe # NoProbe
    /\ probe.level # NoLevel
    /\ probe.id < Len(LevelTable)
    /\ probe' = [call |-> "next", id |-> probe.id + 1, level |-> findTableLevel(probe.id + 1),
                 score |-> 0, result |-> 0, from |-> probe.id]
    /\ UNCHANGED program

\* the scores at and just under each threshold of the entry
TableScores(level) ==
    UNION {{level.starThresholds[i] - 1, level.starThresholds[i]} : i \in 1 .. 3}

rateTableLevel ==
    /\ probe # NoProbe
    /\ probe.level # NoLevel
    /\ probe.call # "stars"
    /\ \E sc \in TableScores(probe.level) :
          probe' = [probe EXCEPT !.call = "stars", !.score = sc,
                                 !.result = calculateStars(probe.level, sc)]
    /\ UNCHANGED program

TableNext ==
    \/ lookUpLevel
    \/ nextTableLevel
    \/ rateTableLevel

TableSpec == Init /\ [][TableNext]_vars

\* ---------------------------------------------------------------------
\* One attempt at a level of the table, by its tallies alone: what
\* loadLevel resets, what a cycle of processMatches credits, what
\* checkLevelEnd decides and what showLevelComplete records.  The swaps
\* counted are those made within the budget and before the decision,
\* MaxSwaps of them at most.
\* ---------------------------------------------------------------------
\* goals.score and goals.collectAny are tested for truthiness: an absent
\* target reads as 0 does
tableLevel(entry) ==
    [id |-> entry.id, moves |-> entry.moves,
     goals |-> [score |-> IF entry.goals.score.present THEN entry.goals.score.target ELSE 0,
                collectGem |-> entry.goals.collectGem,
                collectGem2 |-> entry.goals.collectGem2,
                collectGem3 |-> entry.goals.collectGem3,
                collectAny |-> IF entry.goals.collectAny.present
                               THEN entry.goals.collectAny.target ELSE 0],
     starThresholds |-> entry.starThresholds]

TableKinds == 0 .. (TableGemTypes - 1)

\* the kinds the goals of the entry count, and kind 0
TallyKinds(entry) ==
    {0} \cup {g.type : g \in {h \in {entry.goals.collectGem, entry.goals.collectGem2,
                                      entry.goals.collectGem3} : h.present}}

\* levelProgress[level.id] || {} before the first completion
NoRecord == [completed |-> FALSE, stars |-> 0, bestScore |-> 0]

\* loadLevel(levelId) on an entry of the table
tallyLoadLevel ==
    /\ \E i \in 1 .. Len(LevelTable) :
          probe' = [call |-> "loadLevel", level |-> tableLevel(LevelTable[i]),
                    kinds |-> TallyKinds(LevelTable[i]),
                    score |-> 0, movesLeft |-> LevelTable[i].moves,
                    gemsCollected |-> [k \in TableKinds |-> 0], totalGemsCollected |-> 0,
                    decision |-> "InProgress", record |-> NoRecord]
    /\ UNCHANGED program

\* an accepted swap: movesLeft--, then processMatches over c iterations,
\* each removing one run of RunLength gems of kind k, then checkLevelEnd
RunLength == 3
MaxSwaps == 7
tallyTrySwap(k, c) ==
    /\ probe # NoProbe
    /\ probe.call \in {"loadLevel", "trySwap"}
    /\ probe.decision = "InProgress"
    /\ probe.movesLeft > 0
    /\ probe.level.moves - probe.movesLeft < MaxSwaps
    /\ k \in probe.kinds
    /\ LET points1 == RunLength * POINTS_PER_GEM
           sc == IF c = 1 THEN updateScore(probe.score, points1)
                 ELSE updateScore(updateScore(probe.score, points1), points1 * c)
           gc == [probe.gemsCollected EXCEPT ![k] = @ + RunLength * c]
           total == probe.totalGemsCollected + RunLength * c
           moves == probe.movesLeft - 1
       IN  probe' = [probe EXCEPT !.call = "trySwap", !.score = sc, !.movesLeft = moves,
                                  !.gemsCollected = gc, !.totalGemsCollected = total,
                                  !.decision = checkLevelEnd(probe.level, sc, moves, gc, total)]
    /\ UNCHANGED program

\* the callback of a Complete decision: the "Update progress" block
tallyShowLevelComplete ==
    /\ probe # NoProbe
    /\ probe.call = "trySwap"
    /\ probe.decision = "Complete"
    /\ probe' = [probe EXCEPT !.call = "showLevelComplete",
                              !.record = [completed |-> TRUE,
                                          stars |-> calculateStars(probe.level, probe.score),
                                          bestScore |-> probe.score]]
    /\ UNCHANGED program

TallyNext ==
    \/ tallyLoadLevel
    \/ \E k \in TableKinds, c \in {1, MaxIterations} : tallyTrySwap(k, c)
    \/ tallyShowLevelComplete

TallySpec == Init /\ [][TallyNext]_vars

\* ---------------------------------------------------------------------
\* Play from one board with the restart button, MaxReplayOps operations
\* long: the operations are counted from MaxOps - MaxReplayOps.  The
\* callbacks checkLevelEnd schedules stay pending: they touch neither the
\* board nor the tallies.
\* ---------------------------------------------------------------------
MaxReplayOps == 3

ReplayBoard ==
    [r \in Rows |-> [c \in Cols |-> <<<<0, 1, 1>>, <<0, 0, 0>>, <<2, 2, 1>>>>[r + 1][c + 1]]]

ReplayInit ==
    /\ grid = ReplayBoard
    /\ score = 0
    /\ selectedGem = NoSelection
    /\ isProcessing = FALSE
    /\ currentLevel = 1
    /\ movesLeft = findLevel(1).moves
    /\ totalMoves = findLevel(1).moves
    /\ gemsCollected = ZeroCount
    /\ totalGemsCollected = 0
    /\ levelProgress = [id \in LevelIds |-> NoProgress]
    /\ tasks = <<>>
    /\ timers = <<>>
    /\ modal = AllHidden
    /\ lastDecision = "none"
    /\ done = NoTask
    /\ lastClick = "none"
    /\ probe = NoProbe
    /\ ops = MaxOps - MaxReplayOps
    /\ loads = 0
    /\ iterations = 0

ReplayNext ==
    \/ \E row \in 0 .. MaxClickRow, col \in 0 .. MaxClickCol : handleGemClick(row, col)
    \/ wake
    \/ RestartClick

ReplaySpec == ReplayInit /\ [][ReplayNext]_vars

\* ---------------------------------------------------------------------
\* The course of a game over several attempts.  Here the cycle of an
\* accepted swap is one step, with what it removes and the board it leaves
\* drawn (its own steps are those of the specification above); the buttons
\* and the timer callbacks are the handlers as they are, without the count
\* of operations that bounds the specification above.  An attempt is
\* followed for MaxCycles accepted swaps (handleGemClick does not look at
\* movesLeft) and the game for MaxLoads calls of loadLevel and MaxPending
\* pending callbacks.
\* ---------------------------------------------------------------------
MaxPending == 2
MaxCycles == 2
MaxLoads == 2

\* trySwap of an accepted swap, from movesLeft-- to checkLevelEnd: the cycle
\* has c cascade iterations, each removing one run of three gems of kind k
\* (iteration i credits 3 * POINTS_PER_GEM * i)
swapCycle(k, c, nb) ==
    /\ totalMoves - movesLeft < MaxCycles
    /\ Len(timers) < MaxPending
    /\ movesLeft' = movesLeft - 1
    /\ score' = IF c = 1 THEN updateScore(score, 3 * POINTS_PER_GEM)
                ELSE updateScore(updateScore(score, 3 * POINTS_PER_GEM), 3 * POINTS_PER_GEM * c)
    /\ gemsCollected' = [gemsCollected EXCEPT ![k] = @ + 3 * c]
    /\ totalGemsCollected' = totalGemsCollected + 3 * c
    /\ grid' = nb
    /\ LET decision == checkLevelEnd(findLevel(currentLevel), score', movesLeft',
                                     gemsCollected', totalGemsCollected')
       IN  /\ lastDecision' = decision
           /\ timers' = IF decision = "Complete"
                        THEN Append(timers, [kind |-> "complete", level |-> currentLevel,
                                             attempt |-> loads, score |-> score'])
                        ELSE IF decision = "Failed"
                        THEN Append(timers, [kind |-> "failed", level |-> currentLevel,
                                             attempt |-> loads, score |-> score'])
                        ELSE timers
    /\ UNCHANGED <<selectedGem, isProcessing, currentLevel, totalMoves, levelProgress, tasks,
                   modal, done, lastClick, probe, ops, loads, iterations>>

\* loadLevel(levelId) for a level of the table
startLevel(levelId) ==
    /\ levelId \in LevelIds
    /\ loads < MaxLoads
    /\ loads' = loads + 1
    /\ \E nb \in NewBoards :
          LET level == findLevel(levelId)
          IN  /\ currentLevel' = levelId
              /\ score' = updateScore(0, 0)
              /\ movesLeft' = level.moves
              /\ totalMoves' = level.moves
              /\ selectedGem' = NoSelection
              /\ isProcessing' = FALSE
              /\ gemsCollected' = ZeroCount
              /\ totalGemsCollected' = 0
              /\ grid' = nb
              /\ modal' = [modal EXCEPT !.complete = FALSE, !.failed = FALSE, !.select = FALSE]
    /\ lastDecision' = "none"
    /\ UNCHANGED <<levelProgress, tasks, timers, done, lastClick, probe, ops, iterations>>

\* showLevelSelect() on the modals m
openLevelSelect(m) ==
    /\ modal' = [m EXCEPT !.select = TRUE,
                          !.buttons = {id \in LevelIds : isLevelUnlocked(levelProgress, id)}]
    /\ lastDecision' = "none"
    /\ UNCHANGED <<grid, score, selectedGem, isProcessing, currentLevel, movesLeft, totalMoves,
                   gemsCollected, totalGemsCollected, levelProgress, tasks, timers,
                   done, lastClick, probe, ops, loads, iterations>>

pressRestart == startLevel(currentLevel)
pressRetry == modal.failed /\ startLevel(currentLevel)
pressNextLevel ==
    /\ modal.complete
    /\ modal.nextBtn
    /\ currentLevel < Len(LEVELS)
    /\ startLevel(currentLevel + 1)
pressLevelButton == \E levelId \in modal.buttons : modal.select /\ startLevel(levelId)
pressLevels == openLevelSelect(modal)
pressModalLevels == modal.complete /\ openLevelSelect(hideAllModals(modal))
pressFailedLevels == modal.failed /\ openLevelSelect(hideAllModals(modal))

CourseNext ==
    \/ \E k \in Kinds, c \in {1, MaxIterations}, nb \in NewBoards : swapCycle(k, c, nb)
    \/ pressRestart
    \/ pressRetry
    \/ pressNextLevel
    \/ pressLevelButton
    \/ pressLevels
    \/ pressModalLevels
    \/ pressFailedLevels
    \/ showLevelComplete
    \/ showLevelFailed

CourseSpec == Init /\ [][CourseNext]_vars

\* ---------------------------------------------------------------------
\* Properties
\* ---------------------------------------------------------------------
NoEmptyCell == \A c \in Cells : grid[c[1]][c[2]] # EmptyMark
RECURSIVE SumOver(_, _)
SumOver(f, S) == IF S = {} THEN 0 ELSE LET k == CHOOSE x \in S : TRUE IN f[k] + SumOver(f, S \ {k})
Sum(f) == SumOver(f, Tokens)

\* C1: when a cycle started by trySwap has completed (trySwap has set
\* isProcessing back to false, also after a forced shuffleBoard), no cell of
\* the grid holds -1 and findAllMatches on the grid returns the empty set.
C1_CompletedCycleLeavesNoMatch ==
    done # NoTask => NoEmptyCell /\ findAllMatches(grid) = {}

\* C2: when the trySwap of a rejected swap completes, the grid equals the grid
\* before the swap, and score, movesLeft, every gemsCollected counter and
\* totalGemsCollected are what they were before the swap.
C2_RejectedSwapRestores ==
    (done # NoTask /\ ~done.accepted) =>
        /\ grid = done.before.grid
        /\ score = done.before.score
        /\ movesLeft = done.before.movesLeft
        /\ gemsCollected = done.before.gemsCollected
        /\ totalGemsCollected = done.before.totalGemsCollected

\* C3: when the trySwap of an accepted swap completes, movesLeft equals
\* movesLeft before the swap minus exactly 1, whatever the number of cascade
\* iterations.
C3_AcceptedSwapUsesOneMove ==
    (done # NoTask /\ done.accepted) => movesLeft = done.before.movesLeft - 1

\* the trySwap calls whose cascade loop starts an iteration in this step
Credited ==
    {i \in 1 .. Len(tasks') :
        /\ tasks'[i].pc = "animate"
        /\ Len(tasks') >= Len(tasks)
        /\ (i > Len(tasks) \/ tasks[i].pc # "animate")}
cascadeLevelBefore(i) == IF i > Len(tasks) THEN 0 ELSE tasks[i].cascadeLevel

\* C4: the n-th iteration of the cascade loop of a cycle (n = 1, 2, ..., one
\* more each iteration) adds exactly (matched cells of the iteration) x 10 x n
\* to score; an iteration 1 that matches a single run of 3 adds exactly 30.
C4_CascadeScore ==
    [][\A i \in Credited :
          /\ tasks'[i].cascadeLevel = cascadeLevelBefore(i) + 1
          /\ score' = score + Cardinality(tasks'[i].matches) * 10 * tasks'[i].cascadeLevel
          /\ (tasks'[i].cascadeLevel = 1 /\ Cardinality(tasks'[i].matches) = 3
                => score' = score + 30)]_vars

\* a second iteration of three cells has just been credited after a first of three
C4_Witness ==
    \E i \in 1 .. Len(tasks) :
        /\ tasks[i].pc = "animate"
        /\ tasks[i].cascadeLevel = 2
        /\ Cardinality(tasks[i].matches) = 3
        /\ score = 30 + 60

\* C5: within a level attempt (from one loadLevel to the next) score is
\* non-negative and no step of any operation lowers it.
C5_ScoreMonotone ==
    [][score >= 0 /\ score' >= 0 /\ (loads' = loads => score' >= score)]_vars

\* a cycle of the first attempt has completed and has raised the score
C5_Witness == done # NoTask /\ done.accepted /\ loads = 0 /\ score > done.before.score

\* C6 (first part): within a level attempt no gemsCollected counter and not
\* totalGemsCollected ever decreases.
C6_CountersNeverDecrease ==
    [][loads' = loads =>
          /\ \A k \in Tokens : gemsCollected'[k] >= gemsCollected[k]
          /\ totalGemsCollected' >= totalGemsCollected]_vars

\* C6 (second part): over one cycle gemsCollected[k] rises by exactly the
\* number of cells of kind k the cycle set to -1, and totalGemsCollected by
\* exactly the number of cells it set to -1.
C6_CycleCreditsWhatItRemoves ==
    (done # NoTask /\ done.accepted) =>
        /\ \A k \in Kinds : gemsCollected[k] = done.before.gemsCollected[k] + done.removed[k]
        /\ totalGemsCollected = done.before.totalGemsCollected + Sum(done.removed)

\* C7: when loadLevel has returned, when a trySwap has completed (with any
\* reshuffle it triggered), and whenever no trySwap is in flight, hasValidMoves
\* returns true.
C7_IdleBoardHasMove ==
    /\ []((tasks = <<>> \/ done # NoTask) => hasValidMoves(grid).result)
    /\ [][loads' # loads => hasValidMoves(grid').result]_vars

\* a cycle that ended in a reshuffle has completed and the engine is idle
C7_Witness == tasks = <<>> /\ done # NoTask /\ done.shuffled

\* C8: while a trySwap is in flight, handleGemClick rejects every click (the
\* isProcessing flag is set), so at most one trySwap is in flight at any time,
\* whatever buttons are clicked at its suspension points.
C8_OneCycleInFlight ==
    /\ Len(tasks) <= 1
    /\ tasks # <<>> => isProcessing

Expected(level, sc, moves, gc, total) ==
    IF checkAllGoalsComplete(level.goals, sc, gc, total) THEN "Complete"
    ELSE IF moves = 0 THEN "Failed"
    ELSE "InProgress"

\* C9: after the cascade cycle of an accepted swap, checkLevelEnd decides
\* Complete if all goals are satisfied, otherwise Failed if movesLeft is 0,
\* otherwise InProgress.
C9_LevelEndDecision ==
    lastDecision # "none" =>
        lastDecision = Expected(findLevel(currentLevel), score, movesLeft,
                                gemsCollected, totalGemsCollected)

ClauseHolds(clause, gc) == clause.present => gc[clause.type] >= clause.count
NoClause ==
    [score |-> 0, collectGem |-> NoGemGoal, collectGem2 |-> NoGemGoal,
     collectGem3 |-> NoGemGoal, collectAny |-> 0]

\* C10: checkAllGoalsComplete(goals) is true iff every clause present in goals
\* holds (score >= goals.score, gemsCollected[type] >= count for collectGem,
\* collectGem2 and collectGem3, totalGemsCollected >= goals.collectAny); a
\* goals object without clauses gives true.
C10_GoalsAreConjunction ==
    probe # NoProbe =>
        /\ probe.result = (/\ probe.score >= probe.goals.score
                           /\ ClauseHolds(probe.goals.collectGem, probe.gemsCollected)
                           /\ ClauseHolds(probe.goals.collectGem2, probe.gemsCollected)
                           /\ ClauseHolds(probe.goals.collectGem3, probe.gemsCollected)
                           /\ probe.totalGemsCollected >= probe.goals.collectAny)
        /\ (probe.goals = NoClause => probe.result = TRUE)

\* two clauses present, only the score clause satisfied: the result is false
C10_Witness ==
    /\ probe # NoProbe
    /\ probe.goals.score = 30 /\ probe.score = 30
    /\ probe.goals.collectGem2.present /\ probe.gemsCollected[1] = 2
    /\ ~probe.goals.collectGem.present /\ ~probe.goals.collectGem3.present
    /\ probe.goals.collectAny = 0
    /\ probe.result = FALSE

\* C11: for every score and every thresholds [t1, t2, t3], calculateStars
\* returns 3 if score >= t3, else 2 if score >= t2, else 1 if score >= t1,
\* else 0.
C11_StarsByHighestThreshold ==
    (probe # NoProbe /\ "thresholds" \in DOMAIN probe) =>
        probe.result = (IF probe.score >= probe.thresholds[3] THEN 3
                        ELSE IF probe.score >= probe.thresholds[2] THEN 2
                        ELSE IF probe.score >= probe.thresholds[1] THEN 1
                        ELSE 0)

\* thresholds out of order, the score between them: the later threshold decides
C11_Witness ==
    /\ probe # NoProbe
    /\ "thresholds" \in DOMAIN probe
    /\ probe.thresholds[1] > probe.score
    /\ probe.thresholds[2] <= probe.score
    /\ probe.thresholds[3] > probe.score
    /\ probe.result = 2

Max(a, b) == IF a >= b THEN a ELSE b

\* C12: for every level id, across any sequence of completions the stored
\* progress record never regresses: once completed is true it stays true, and
\* the stored stars and bestScore after each showLevelComplete are the maximum
\* of the previous stored value and the new value.
C12_ProgressNeverRegresses ==
    (probe # NoProbe /\ "after" \in DOMAIN probe) =>
        LET level == findLevel(probe.level)
            new == (IF probe.score >= level.starThresholds[3] THEN 3
                    ELSE IF probe.score >= level.starThresholds[2] THEN 2
                    ELSE IF probe.score >= level.starThresholds[1] THEN 1 ELSE 0)
        IN  /\ \A id \in LevelIds :
                  /\ probe.before[id].completed => probe.after[id].completed
                  /\ probe.after[id].stars >= probe.before[id].stars
                  /\ probe.after[id].bestScore >= probe.before[id].bestScore
                  /\ id # probe.level => probe.after[id] = probe.before[id]
            /\ probe.after[probe.level].completed
            /\ probe.after[probe.level].stars = Max(probe.before[probe.level].stars, new)
            /\ probe.after[probe.level].bestScore =
                  Max(probe.before[probe.level].bestScore, probe.score)

\* a level completed with two stars is completed again with a lower score
\* that is worth one star: two stars and the higher score stay stored
C12_Witness ==
    /\ probe # NoProbe
    /\ "after" \in DOMAIN probe
    /\ probe.before[probe.level].completed
    /\ probe.before[probe.level].stars = 2
    /\ probe.score < probe.before[probe.level].bestScore
    /\ probe.score >= findLevel(probe.level).starThresholds[1]
    /\ probe.score < findLevel(probe.level).starThresholds[2]
    /\ probe.after[probe.level].stars = 2
    /\ probe.after[probe.level].bestScore = probe.before[probe.level].bestScore

\* C13: isLevelUnlocked(1) is always true, and for every N > 1
\* isLevelUnlocked(N) is true iff the progress record of level N-1 exists
\* with completed = true.
C13_UnlockedByPreviousLevel ==
    (probe # NoProbe /\ "levelId" \in DOMAIN probe) =>
        /\ probe.levelId = 1 => probe.result = TRUE
        /\ probe.levelId > 1 =>
              probe.result = (\E id \in DOMAIN probe.progress :
                                 id = probe.levelId - 1 /\ probe.progress[id].completed)

\* the previous level has a record that is not completed, an earlier level
\* is completed: the level stays locked
C13_Witness ==
    /\ probe # NoProbe
    /\ "levelId" \in DOMAIN probe
    /\ probe.levelId = 3
    /\ DOMAIN probe.progress = {1, 2}
    /\ probe.progress[1].completed
    /\ ~probe.progress[2].completed
    /\ probe.result = FALSE

\* the cells of board b that lie in a run: three or more contiguous cells of
\* one row or one column holding the same kind
InRowRun(b, c) ==
    \E lo \in Cols, hi \in Cols :
        /\ lo <= c[2] /\ c[2] <= hi /\ hi - lo >= 2
        /\ b[c[1]][lo] # EmptyMark
        /\ \A k \in lo .. hi : b[c[1]][k] = b[c[1]][lo]
InColRun(b, c) ==
    \E lo \in Rows, hi \in Rows :
        /\ lo <= c[1] /\ c[1] <= hi /\ hi - lo >= 2
        /\ b[lo][c[2]] # EmptyMark
        /\ \A k \in lo .. hi : b[k][c[2]] = b[lo][c[2]]
RunCells(b) == {c \in Cells : InRowRun(b, c) \/ InColRun(b, c)}

\* C14: for every board, findAllMatches returns exactly the set of cells that
\* lie in some horizontal or vertical run of 3 or more contiguous equal kinds
\* (none missed, no other included), each position once.
C14_MatchesAreTheRunCells ==
    (probe # NoProbe /\ probe.call = "findAllMatches") =>
        probe.result = RunCells(probe.board)

\* C15: Empty cells never match: for every board, also one with three or
\* more contiguous Empty cells in a row or column, the set returned by
\* findAllMatches holds no position whose cell is Empty.
C15_EmptyCellsNeverMatch ==
    (probe # NoProbe /\ probe.call = "findAllMatches") =>
        \A c \in probe.result : probe.board[c[1]][c[2]] # EmptyMark

Abs(n) == IF n >= 0 THEN n ELSE 0 - n
Distance(a, b) == Abs(a[1] - b[1]) + Abs(a[2] - b[2])

\* C16: a click on a cell that is not adjacent to the selected cell (Manhattan
\* distance other than 1, the selected cell itself included) requests no swap:
\* handleGemClick only changes the selection; grid, score and movesLeft (and
\* the counters, the calls in flight and the timers) are unchanged.
C16_NonAdjacentClickOnlySelects ==
    [][\A row \in 0 .. MaxClickRow, col \in 0 .. MaxClickCol :
          (/\ selectedGem # NoSelection
           /\ Distance(selectedGem, <<row, col>>) # 1
           /\ handleGemClick(row, col))
          => /\ grid' = grid
             /\ score' = score
             /\ movesLeft' = movesLeft
             /\ gemsCollected' = gemsCollected
             /\ totalGemsCollected' = totalGemsCollected
             /\ tasks' = tasks
             /\ timers' = timers
             /\ isProcessing' = isProcessing
             /\ selectedGem' = IF selectedGem = <<row, col>> THEN NoSelection
                               ELSE <<row, col>>]_vars

\* after a swap that scored, a diagonal click has just moved the selection
C16_Witness ==
    /\ lastClick = "reselect"
    /\ selectedGem # NoSelection
    /\ score > 0
    /\ movesLeft < totalMoves

\* C17: every call of saveProgress (made by showLevelComplete, the callback of
\* a Complete decision) happens at a moment when no resolution cycle is in
\* flight: isProcessing is false when the progress store is written.
C17_SaveOutsideResolution ==
    [][showLevelComplete => ~isProcessing]_vars

\* C18: when loadLevel(L) returns for a level L of the table, the run state is
\* reset: score = 0, movesLeft = L.moves, every per-kind counter and
\* totalGemsCollected are 0, and the board has no Empty cell.
C18_LoadLevelResetsRun ==
    [][loads' # loads =>
          \E i \in 1 .. Len(LEVELS) :
              /\ LEVELS[i].id = currentLevel'
              /\ score' = 0
              /\ movesLeft' = LEVELS[i].moves
              /\ \A k \in DOMAIN gemsCollected' : gemsCollected'[k] = 0
              /\ totalGemsCollected' = 0
              /\ \A c \in Cells : grid'[c[1]][c[2]] # EmptyMark]_vars

\* level 1 was completed with a positive score and level 2 has been loaded
\* as the last operation: the run starts from zero with the moves of level 2
C18_Witness ==
    /\ loads = 1
    /\ ops = MaxOps
    /\ currentLevel = 2
    /\ levelProgress[1].bestScore > 0
    /\ score = 0
    /\ movesLeft = LEVELS[2].moves
    /\ totalGemsCollected = 0
    /\ NoEmptyCell

\* board b with the values of cells c and d exchanged
Exchanged(b, c, d) ==
    [row \in Rows |-> [col \in Cols |->
        IF <<row, col>> = c THEN b[d[1]][d[2]]
        ELSE IF <<row, col>> = d THEN b[c[1]][c[2]]
        ELSE b[row][col]]]

\* C19: for every board without standing matches, hasValidMoves returns true
\* iff there is a pair of adjacent cells whose swap makes findAllMatches
\* non-empty, and false iff the board is deadlocked.
C19_ValidMoveIffSomeSwapMatches ==
    (probe # NoProbe /\ probe.call = "hasValidMoves" /\ findAllMatches(probe.board) = {}) =>
        probe.result = (\E c \in Cells, d \in Cells :
                           /\ Distance(c, d) = 1
                           /\ findAllMatches(Exchanged(probe.board, c, d)) # {})

\* a board without Empty cells and without matches on which no swap with a
\* right neighbour gives a match and a swap with a bottom neighbour does
C19_Witness ==
    /\ probe # NoProbe
    /\ probe.call = "hasValidMoves"
    /\ findAllMatches(probe.board) = {}
    /\ \A c \in Cells : probe.board[c[1]][c[2]] # EmptyMark
    /\ \A c \in Cells, d \in Cells :
          (c[1] = d[1] /\ Distance(c, d) = 1)
              => findAllMatches(Exchanged(probe.board, c, d)) = {}
    /\ probe.result = TRUE

\* the adjacent pairs in the order of the scan: cell by cell in row-major
\* order, the right neighbour before the bottom neighbour
PairRank(m) == 2 * (m[1] * COLS + m[2]) + (IF m[3] = m[1] THEN 0 ELSE 1)
ScanPairs ==
    {<<c[1], c[2], c[1], c[2] + 1>> : c \in {x \in Cells : x[2] + 1 < COLS}}
        \cup {<<c[1], c[2], c[1] + 1, c[2]>> : c \in {x \in Cells : x[1] + 1 < ROWS}}
Producing(b) ==
    {m \in ScanPairs : findAllMatches(Exchanged(b, <<m[1], m[2]>>, <<m[3], m[4]>>)) # {}}

\* C20: for every board, findValidMove returns non-null iff hasValidMoves
\* returns true, the pair it returns is the first match-producing pair in
\* row-major cell order with the right neighbour tried before the bottom
\* neighbour, and a second call on the same board returns the same pair.
C20_HintIsFirstProducingPair ==
    (probe # NoProbe /\ probe.call = "findValidMove") =>
        LET producing == Producing(probe.board)
        IN  /\ (probe.result # NoMove) = hasValidMoves(probe.board).result
            /\ IF producing = {} THEN probe.result = NoMove
               ELSE /\ probe.result \in producing
                    /\ \A m \in producing : PairRank(probe.result) <= PairRank(m)
            /\ probe.earlier.call = "findValidMove" => probe.earlier.result = probe.result

\* a second call in a row on a board with several producing pairs, on which
\* the first one is a swap with a bottom neighbour
C20_Witness ==
    /\ probe # NoProbe
    /\ probe.call = "findValidMove"
    /\ probe.earlier.call = "findValidMove"
    /\ probe.result # NoMove
    /\ probe.result[3] = probe.result[1] + 1
    /\ Cardinality(Producing(probe.board)) >= 2
    /\ \E m \in Producing(probe.board) : m[3] = m[1]

\* C21: createGrid fills the board in row-major order; every cell whose kind
\* was accepted by the rejection test (not by the 100-attempt cap) differs
\* from a pair of equal kinds in the two cells to its left and in the two
\* cells above it; and if no cell was accepted by the cap, the finished board
\* has no run of three or more (findAllMatches is empty).
C21_CreateGridLeavesNoRun ==
    (probe # NoProbe /\ "capped" \in DOMAIN probe) =>
        /\ \A c \in Cells :
              (grid[c[1]][c[2]] # EmptyMark) = (c[1] * COLS + c[2] < probe.cells)
        /\ \A c \in Cells :
              (c[1] * COLS + c[2] < probe.cells /\ c \notin probe.capped) =>
                  /\ grid[c[1]][c[2]] \in Kinds
                  /\ c[2] >= 2 => ~(/\ grid[c[1]][c[2] - 1] = grid[c[1]][c[2]]
                                     /\ grid[c[1]][c[2] - 2] = grid[c[1]][c[2]])
                  /\ c[1] >= 2 => ~(/\ grid[c[1] - 1][c[2]] = grid[c[1]][c[2]]
                                     /\ grid[c[1] - 2][c[2]] = grid[c[1]][c[2]])
        /\ (probe.cells = ROWS * COLS /\ probe.capped = {}) => findAllMatches(grid) = {}

\* a finished board, no cell by the cap, whose last cell had an equal pair
\* both to its left and above it, of different kinds, to avoid
C21_Witness ==
    /\ probe # NoProbe
    /\ "capped" \in DOMAIN probe
    /\ probe.cells = ROWS * COLS
    /\ probe.capped = {}
    /\ grid[ROWS - 1][COLS - 2] = grid[ROWS - 1][COLS - 3]
    /\ grid[ROWS - 2][COLS - 1] = grid[ROWS - 3][COLS - 1]
    /\ grid[ROWS - 1][COLS - 2] # grid[ROWS - 2][COLS - 1]
    /\ findAllMatches(grid) = {}

\* C22: loadLevel with an id that is not in the level table starts no level:
\* it is not coerced to another level, and currentLevel, score, movesLeft, the
\* collected counters and the grid are unchanged.
C22_UnknownLevelLoadsNothing ==
    [][\A levelId \in LoadIds :
          ((\A i \in 1 .. Len(LEVELS) : LEVELS[i].id # levelId) /\ loadLevel(levelId))
          => /\ currentLevel' = currentLevel
             /\ score' = score
             /\ movesLeft' = movesLeft
             /\ totalMoves' = totalMoves
             /\ gemsCollected' = gemsCollected
             /\ totalGemsCollected' = totalGemsCollected
             /\ grid' = grid
             /\ selectedGem' = selectedGem]_vars

\* loadLevel has been called once and the run still has its score, its
\* counters and its used move, which a level of the table would have reset
C22_Witness ==
    /\ loads = 1
    /\ score > 0
    /\ totalGemsCollected > 0
    /\ movesLeft < totalMoves
    /\ selectedGem # NoSelection

\* C23: once a cycle has started it runs to completion: every trySwap in
\* flight eventually returns, a trySwap only ever leaves by returning, with
\* isProcessing set back to false by it, and until then no other operation
\* takes it out of flight or moves it back.
C23_CycleRunsToCompletion ==
    /\ (tasks # <<>>) ~> (tasks = <<>>)
    /\ [][/\ Len(tasks') >= Len(tasks) - 1
          /\ Len(tasks') < Len(tasks) => (done' # NoTask /\ done'.pc = "done" /\ ~isProcessing')
          /\ done' = NoTask => \A i \in 1 .. Len(tasks) : i <= Len(tasks')]_vars

\* a trySwap in whose cycle a level was loaded has returned all the same,
\* after an accepted swap and a cascade
C23_Witness ==
    /\ done # NoTask
    /\ done.pc = "done"
    /\ done.accepted
    /\ done.cascadeLevel >= 1
    /\ loads > done.before.loads
    /\ tasks = <<>>

\* the kinds of column col of board b from top to bottom, Empty cells left out
RECURSIVE KindsBelow(_, _, _)
KindsBelow(b, col, row) ==
    IF row >= ROWS THEN <<>>
    ELSE IF b[row][col] = EmptyMark THEN KindsBelow(b, col, row + 1)
    ELSE <<b[row][col]>> \o KindsBelow(b, col, row + 1)
ColumnKinds(b, col) == KindsBelow(b, col, 0)

\* C24: after applyGravity, in every column all Empty cells lie above all
\* non-Empty cells, the top-to-bottom sequence of non-Empty kinds of the
\* column is the same as before the call (so no kind moves to another
\* column), and applying applyGravity a second time changes nothing.
C24_GravityCompactsColumns ==
    (probe # NoProbe /\ probe.call = "applyGravity") =>
        /\ \A col \in Cols :
              /\ \A row \in 0 .. ROWS - 2 :
                    grid[row][col] # EmptyMark => grid[row + 1][col] # EmptyMark
              /\ ColumnKinds(grid, col) = ColumnKinds(probe.board, col)
        /\ probe.result = (grid # probe.board)
        /\ probe.earlier.call = "applyGravity" => grid = probe.board

\* a second applyGravity in a row, after a first one that moved gems of two
\* columns down past Empty cells
C24_Witness ==
    /\ probe # NoProbe
    /\ probe.call = "applyGravity"
    /\ probe.earlier.call = "applyGravity"
    /\ probe.earlier.result = TRUE
    /\ grid = probe.board
    /\ Cardinality({col \in Cols : grid[0][col] = EmptyMark /\ grid[ROWS - 1][col] # EmptyMark}) >= 2

\* the number of Empty cells of board b before cell (row, col) in the order
\* of columns, each from top to bottom
EmptyBefore(b, row, col) ==
    Cardinality({c \in Cells : /\ b[c[1]][c[2]] = EmptyMark
                                /\ (c[2] < col \/ (c[2] = col /\ c[1] < row))})

\* C25: after fillEmptySpaces no cell is Empty: every cell that was Empty
\* holds a kind in [0, NUM_GEM_TYPES), the one drawn for it whatever its
\* neighbours hold, and every cell that was not Empty is unchanged.
C25_FillLeavesNoEmptyCell ==
    (probe # NoProbe /\ probe.call = "fillEmptySpaces") =>
        /\ \A c \in Cells :
              IF probe.board[c[1]][c[2]] = EmptyMark
              THEN /\ grid[c[1]][c[2]] \in 0 .. NUM_GEM_TYPES - 1
                   /\ grid[c[1]][c[2]] =
                        (draw(probe.result.stream, EmptyBefore(probe.board, c[1], c[2]))
                            * NUM_GEM_TYPES) \div RandomSteps
              ELSE grid[c[1]][c[2]] = probe.board[c[1]][c[2]]
        /\ probe.result.filled = (\E c \in Cells : probe.board[c[1]][c[2]] = EmptyMark)

\* a refill of Empty cells in the two upper rows that completes a run of
\* three with a cell that was there before
C25_Witness ==
    /\ probe # NoProbe
    /\ probe.call = "fillEmptySpaces"
    /\ \E c \in Cells : c[1] >= 1 /\ probe.board[c[1]][c[2]] = EmptyMark
    /\ \E c \in Cells : probe.board[c[1]][c[2]] # EmptyMark
    /\ \E c \in RunCells(grid) : probe.board[c[1]][c[2]] = EmptyMark
    /\ \E c \in RunCells(grid) : probe.board[c[1]][c[2]] # EmptyMark
    /\ \A c \in Cells : grid[c[1]][c[2]] # EmptyMark

\* C26: findAllMatches, hasValidMoves and findValidMove leave the program as
\* they found it: on every board and every return path the grid after the
\* call is cell for cell the grid before it, and score, movesLeft and the
\* counters are unchanged.
C26_ScansLeaveTheBoard ==
    [][(probe' # NoProbe /\ probe'.call \in {"findAllMatches", "hasValidMoves", "findValidMove"}) =>
          /\ \A c \in Cells : grid'[c[1]][c[2]] = grid[c[1]][c[2]]
          /\ score' = score
          /\ movesLeft' = movesLeft
          /\ totalMoves' = totalMoves
          /\ gemsCollected' = gemsCollected
          /\ totalGemsCollected' = totalGemsCollected]_vars

\* hasValidMoves has returned true on a swap with the cell below, after
\* findValidMove returned that pair, and the board is the one of the call
C26_Witness ==
    /\ probe # NoProbe
    /\ probe.call = "hasValidMoves"
    /\ probe.result = TRUE
    /\ probe.earlier.call = "findValidMove"
    /\ probe.earlier.result # NoMove
    /\ probe.earlier.result[3] = probe.earlier.result[1] + 1
    /\ probe.earlier.result[1] >= 1
    /\ grid = probe.board

\* a run of three needs three cells of one kind, and three cells of one kind
\* can be laid out one swap away from a run, so the boards some arrangement
\* of which has a valid move are those on which a kind has three cells
SomeArrangementHasMove == \E t \in ShuffleTokens : probe.counts[t] >= 3

\* C27: shuffleBoard shuffles again, without a bound on the number of
\* retries, until the board has a valid move: when it has returned
\* hasValidMoves is true; it returns in the end (the draws being fair) if
\* some arrangement of the tokens of the board has a valid move, and it
\* never returns if none has.
C27_ShuffleReturnsWithAMove ==
    /\ [](probe.status = "returned" => hasValidMoves(grid).result)
    /\ SomeArrangementHasMove ~> (probe.status = "returned")
    /\ [](~SomeArrangementHasMove => probe.status = "running")

\* shuffleBoard has returned after a call that left no valid move and
\* called again
C27_Witness ==
    /\ probe.call = "shuffleBoard"
    /\ probe.status = "returned"
    /\ probe.retried
    /\ hasValidMoves(grid).result

\* C28: shuffleBoard only permutes the board: of every kind there are as
\* many cells after the call as before it, and no cell becomes Empty.
C28_ShuffleKeepsTheCounts ==
    /\ \A t \in ShuffleTokens : Count(grid, t) = probe.counts[t]
    /\ \A c \in Cells : grid[c[1]][c[2]] # EmptyMark

\* shuffleBoard has returned, after a retry, a board of three kinds that
\* its calls have rearranged
C28_Witness ==
    /\ probe.call = "shuffleBoard"
    /\ probe.status = "returned"
    /\ probe.retried
    /\ probe.moved
    /\ \A k \in Kinds : probe.counts[k] >= 2 /\ Count(grid, k) = probe.counts[k]

\* the present targets of a goals record
GoalTargets(goals) ==
    {goals[k].target : k \in {n \in {"score", "collectAny"} : goals[n].present}}
        \cup {goals[k].count : k \in {n \in {"collectGem", "collectGem2", "collectGem3"} : goals[n].present}}
GoalTypes(goals) ==
    {goals[k].type : k \in {n \in {"collectGem", "collectGem2", "collectGem3"} : goals[n].present}}

ValidLevel(level) ==
    /\ level.moves > 0
    /\ level.starThresholds[1] < level.starThresholds[2]
    /\ level.starThresholds[2] < level.starThresholds[3]
    /\ \A n \in GoalTargets(level.goals) : n > 0
    /\ \A t \in GoalTypes(level.goals) : t \in 0 .. TableGemTypes - 1

\* C29: every entry of the table of levels.js is a valid level: its move
\* budget is positive, its three star thresholds increase strictly, every
\* goal target it has is positive, every collectGem type is a kind of the
\* game, and the ids are 1 .. LEVELS.length in the order of the array, so
\* that a look-up finds entry number levelId for exactly these ids and the
\* next-level step always finds its level.
C29_LevelTableIsValid ==
    probe # NoProbe =>
        /\ probe.id \in 1 .. Len(LevelTable) <=> probe.level # NoLevel
        /\ probe.level # NoLevel =>
              /\ probe.level = LevelTable[probe.id]
              /\ ValidLevel(probe.level)
        /\ probe.call = "next" => probe.level # NoLevel
        /\ probe.call = "stars" =>
              probe.result = Cardinality({i \in 1 .. 3 : probe.score >= probe.level.starThresholds[i]})

\* the last level, with a score goal and a collectAny goal, reached from
\* the level before it by the next-level step and rated two stars
C29_Witness ==
    /\ probe # NoProbe
    /\ probe.call = "stars"
    /\ probe.from = Len(LevelTable) - 1
    /\ probe.id = Len(LevelTable)
    /\ probe.level.goals.collectAny.present
    /\ probe.level.goals.score.present
    /\ probe.result = 2

\* C30: movesLeft is never negative: in every reachable state it lies
\* between 0 and the move budget of the current level, so no swap is
\* accepted once movesLeft has reached 0.
C30_MovesLeftWithinBudget ==
    /\ 0 <= movesLeft
    /\ movesLeft <= findLevel(currentLevel).moves

\* the pending end-of-level callbacks of the attempt that loadLevel number n began
PendingOutcomes(ts, n) == {i \in 1 .. Len(ts) : ts[i].attempt = n}

\* C31: once checkLevelEnd has decided Complete or Failed for an attempt, no
\* further swap is accepted in this attempt (no move is used, no score or
\* collection is credited, no second outcome is scheduled) until loadLevel
\* begins a new attempt; stated for the time the callback of the decision
\* is still pending.
C31_NoSwapAfterTheDecision ==
    [][(PendingOutcomes(timers, loads) # {} /\ loads' = loads) =>
          /\ lastClick' = "swap" =>
                /\ movesLeft' = movesLeft
                /\ score' = score
                /\ gemsCollected' = gemsCollected
                /\ totalGemsCollected' = totalGemsCollected
          /\ Cardinality(PendingOutcomes(timers', loads)) <= 1]_vars

\* C32: the stars and bestScore showLevelComplete records are those of the
\* score at the Complete decision: the score the callback reads when its
\* timer fires is the score checkLevelEnd saw, in the same attempt of the
\* same level, whatever loadLevel or swap ran in between.
C32_RecordedScoreIsTheDecided ==
    [][showLevelComplete =>
          /\ score = Head(timers).score
          /\ loads = Head(timers).attempt
          /\ currentLevel = Head(timers).level]_vars

\* no swap has been accepted since the last loadLevel, and every trySwap in
\* flight was requested before it
NoSwapSinceLoadLevel ==
    /\ movesLeft = totalMoves
    /\ \A i \in 1 .. Len(tasks) : tasks[i].before.loads < loads

\* C33: after loadLevel(L) the run state of the new attempt is kept apart
\* from earlier cycles: until the next swap requested by a click made after
\* that loadLevel, score and the collected counters stay 0, movesLeft stays
\* at L.moves and the grid stays free of Empty cells and of standing
\* matches; a cycle that was suspended when loadLevel ran changes none of
\* them.  (The runs a dealt board can hold are the matter of C1: only
\* the runs of Empty cells a suspended cycle leaves are looked at here.)
C33_NewAttemptIsIsolated ==
    NoSwapSinceLoadLevel =>
        /\ score = 0
        /\ gemsCollected = ZeroCount
        /\ totalGemsCollected = 0
        /\ movesLeft = findLevel(currentLevel).moves
        /\ NoEmptyCell

\* C34: every level loadLevel starts is unlocked at that moment: from empty
\* progress at level 1, whatever level-select, restart, retry and next-level
\* buttons are pressed and whatever is completed, the level being played
\* is unlocked.
C34_PlayedLevelIsUnlocked ==
    isLevelUnlocked(levelProgress, currentLevel)

\* C35: a completed level earns at least one star: whenever
\* checkAllGoalsComplete holds for the goals of a level of the table the
\* score has reached starThresholds[0], and the record showLevelComplete
\* writes has stars >= 1.
C35_CompletedLevelHasAStar ==
    (probe # NoProbe /\ probe.call \in {"loadLevel", "trySwap", "showLevelComplete"}) =>
        /\ checkAllGoalsComplete(probe.level.goals, probe.score, probe.gemsCollected,
                                 probe.totalGemsCollected)
              => probe.score >= probe.level.starThresholds[1]
        /\ probe.record.completed => probe.record.stars >= 1

\* C36: in every reachable state totalGemsCollected is the sum of
\* gemsCollected[k] over the gem kinds k in [0, NUM_GEM_TYPES), and score is
\* a multiple of POINTS_PER_GEM, at least POINTS_PER_GEM x totalGemsCollected.
C36_TalliesAgree ==
    /\ totalGemsCollected = SumOver(gemsCollected, Kinds)
    /\ score % POINTS_PER_GEM = 0
    /\ score >= POINTS_PER_GEM * totalGemsCollected

TypeOK ==
    /\ grid \in [Rows -> [Cols -> Tokens]]
    /\ score \in Nat
    /\ isProcessing \in BOOLEAN
    /\ currentLevel \in LevelIds
    /\ movesLeft \in Int
    /\ Len(tasks) <= MaxTasks

====
